---- MODULE Spec2Model ----
(***************************************************************************)
(* Chunked frame transport of udp_video_streamer: the packetizer           *)
(* (packetization.py), the receiver-side frame reassembler                 *)
(* (client_example.py) and the UDP server with its session table and its   *)
(* three threads (streamer.py).  Datagrams are byte sequences; a byte is   *)
(* an integer in 0..255.                                                   *)
(***************************************************************************)
EXTENDS Integers, Sequences, FiniteSets

VARIABLES
    \* packetizer inputs and output (packetization.py)
    payload,            \* data: the frame payload handed to build_frame_packets
    frame_id_in,        \* frame_id argument
    payload_size_in,    \* payload_size argument
    packets,            \* the list build_frame_packets returned
    pc,                 \* "start", "packetized": position of the sender pipeline
    todo,               \* indices of packets not yet fed to the receiver
    \* receiver (client_example.py, UDPVideoClient)
    native,             \* the platform's native C long: [longsize, order]
    running,            \* self.running
    pending_frames,     \* self.pending_frames: frame_id -> bytearray
    expected_chunks,    \* self.expected_chunks: frame_id -> remaining count
    data,               \* the datagram last returned by recvfrom
    emitted,            \* calls of _process_complete_frame made by the last handler
    completed,          \* every frame handed to the consumer so far (pipeline only)
    chunks_seen,        \* history: per pending id, chunk_count of the latest
                        \* frame-start and the chunk indices accepted since
    traffic,            \* which datagrams the network may deliver (any order, repeated)
    \* server (streamer.py, UDPVideoStreamer)
    clients,            \* self.clients: an insertion-ordered dict, kept as the
                        \* sequence of its entries [addr, last_seen]
    next_frame_id,      \* self.next_frame_id, as two 16-bit halves [hi, lo]
    use_h264,           \* self.use_h264: which sender loop the streaming thread runs
    now,                \* what time.time() returns, in seconds
    listener,           \* position and locals of the listen_for_clients thread
    sender,             \* position and locals of the streaming thread
    sweeper,            \* position and locals of the cleanup_inactive_clients thread
    sent,               \* the sendto calls made by the last step: [to, data]
    frames_taken,       \* history: payloads taken from the payload source so far
    registered,         \* history: the addresses a REGISTER_CLIENT came from so far
    peers,              \* which hosts send datagrams to the server
    received,           \* the (data, addr) the server's recvfrom returned last,
                        \* where the specification keeps note of it
    acked,              \* history: the addresses REGISTERED was sent to so far
    streamer_running,   \* self.running of the UDPVideoStreamer
    socket_closed,      \* whether stop() has closed self.socket
    \* clients on schedule (client_example.py, connect and send_keepalive)
    client_pc,          \* per client address: "idle", "connecting", "streaming"
    keepalive_due,      \* per client address: when its next KEEPALIVE is due
    inflight,           \* datagrams sent to the server and not yet received
    \* configuration (config.py, parse_stream_config)
    args,               \* the argparse namespace: per option a value or None
    config_data,        \* the JSON object of the config file, or NoFile
    stream_config,      \* what parse_stream_config did: returned or raised
    \* encoder output queue (streamer.py, H264BufferOutput)
    chunks,             \* self._chunks: the deque, leftmost first
    lock,               \* self._lock: "free" or the thread that holds it
    encoder,            \* position and argument of the encoder thread in write
    getter,             \* position and result of the sender thread in get_chunk
                        \* or clear
    written,            \* history: the non-empty chunks written since the last clear
    returned,           \* history: the chunks get_chunk returned since the last clear
    writes              \* history: calls of write so far

wireVars == <<payload, frame_id_in, payload_size_in, packets, pc, todo>>
recvVars == <<native, running, pending_frames, expected_chunks, data, emitted,
              completed, chunks_seen, traffic>>
serverVars == <<clients, next_frame_id, use_h264, now, listener, sender, sweeper,
                sent, frames_taken, registered, peers, received, acked>>
shutdownVars == <<streamer_running, socket_closed>>
configVars == <<args, config_data, stream_config>>
queueVars == <<chunks, lock, encoder, getter, written, returned, writes>>
sideVars == <<configVars, queueVars>>
clientVars == <<client_pc, keepalive_due, inflight>>
vars == <<wireVars, recvVars, serverVars, shutdownVars, sideVars, clientVars>>

-----------------------------------------------------------------------------
(* Program constants *)

\* payload_size = 1200 when payload_size <= 0
DEFAULT_PAYLOAD_SIZE == 1200
\* offset = chunk_index * 1200
CHUNK_STRIDE == 1200
\* if len(self.pending_frames) > 5
MAX_PENDING == 5
\* if len(data) < 23
FRAME_START_MIN_LEN == 23
\* if len(data) < 13
CHUNK_MIN_LEN == 13
\* b"FRAME_START" is 11 bytes: data[11:23]
FRAME_START_PREFIX_LEN == 11
\* b"CHUNK" is 5 bytes: data[5:13]
CHUNK_PREFIX_LEN == 5

\* self.client_timeout = 30
CLIENT_TIMEOUT == 30
\* self.chunk_payload_size = 1200
CHUNK_PAYLOAD_SIZE == 1200

\* b"FRAME_START"
FRAME_START == <<70, 82, 65, 77, 69, 95, 83, 84, 65, 82, 84>>
\* b"CHUNK"
CHUNK == <<67, 72, 85, 78, 75>>

-----------------------------------------------------------------------------
(* Bounds of the model *)

\* most chunk packets of one packetized frame in the pipeline specification
MaxChunks == 3
\* how far expected_chunks of one frame may run below zero before the model
\* stops delivering chunks to it
MaxUnderflow == 2
\* largest buffer a frame-start may allocate in the model
MaxFrameSize == 2500
\* largest chunk_count of a frame-start the model follows
MaxChunkCount == 3
\* largest chunk_index the model follows (offset = chunk_index * 1200 is computed)
MaxChunkIndex == 1000
\* most payloads the sender takes from the payload source in one run
MaxCycles == 2
\* the clock stops here
MaxTime == 31
\* the number of periods of five seconds the clients on schedule are followed
MaxPasses == 7
\* most calls of H264BufferOutput.write in one run
MaxWrites == 3

-----------------------------------------------------------------------------
(* Byte-level helpers *)

Min(S) == CHOOSE x \in S : \A y \in S : x <= y

\* Python slice s[a:b] on a sequence (0-based, clipped to the sequence)
Slice(s, a, b) ==
    LET hi == IF b < Len(s) THEN b ELSE Len(s)
    IN  IF a >= hi THEN <<>> ELSE SubSeq(s, a + 1, hi)

\* bytes.startswith
StartsWith(s, prefix) ==
    /\ Len(s) >= Len(prefix)
    /\ SubSeq(s, 1, Len(prefix)) = prefix

\* struct.pack("<I", x): four bytes, least significant first
PackU32LE(x) ==
    <<x % 256, (x \div 256) % 256, (x \div 65536) % 256, (x \div 16777216) % 256>>

\* the integer four bytes stand for, in the given byte order
DecodeU32(b, order) ==
    IF order = "little"
    THEN b[1] + 256 * b[2] + 65536 * b[3] + 16777216 * b[4]
    ELSE b[4] + 256 * b[3] + 65536 * b[2] + 16777216 * b[1]

\* the most significant of four bytes in the given byte order
TopByte(b, order) == IF order = "little" THEN b[4] ELSE b[1]

\* struct.unpack("L" * n, b) in native mode: the C long of the platform decides
\* the size of a field.  The buffer must be exactly calcsize bytes, otherwise
\* struct.error is raised; the callers always pass 4 * n bytes.
NativeUnpack(b, n, plat) ==
    IF Len(b) # n * plat.longsize
    THEN [ok |-> FALSE, vals |-> <<>>]
    ELSE [ok |-> TRUE,
          vals |-> [k \in 1..n |->
                      DecodeU32(SubSeq(b, 4 * (k - 1) + 1, 4 * k), plat.order)]]

-----------------------------------------------------------------------------
(* packetization.py *)

\* variant: the count rounded down
ChunkCount_floor(size, payload_size) == size \div payload_size

\* chunk_count = (size + payload_size - 1) // payload_size
ChunkCount(size, payload_size) == (size + payload_size - 1) \div payload_size

\* payload_size as used after the "if payload_size <= 0" replacement
EffectivePayloadSize(payload_size) ==
    IF payload_size <= 0 THEN DEFAULT_PAYLOAD_SIZE ELSE payload_size

\* b"FRAME_START" + struct.pack("<III", frame_id, size, chunk_count)
FrameStartPacket(frame_id, size, chunk_count) ==
    FRAME_START \o PackU32LE(frame_id) \o PackU32LE(size) \o PackU32LE(chunk_count)

\* variant: the slice ends one byte early
ChunkSlice_short(bytes, offset, payload_size) ==
    Slice(bytes, offset, offset + payload_size - 1)

\* chunk = data[offset:offset + payload_size]
ChunkSlice(bytes, offset, payload_size) == Slice(bytes, offset, offset + payload_size)

\* b"CHUNK" + struct.pack("<II", frame_id, chunk_index) + chunk
ChunkPacket(frame_id, chunk_index, chunk) ==
    CHUNK \o PackU32LE(frame_id) \o PackU32LE(chunk_index) \o chunk

\* for offset in range(0, size, payload_size): ... chunk_index += 1
RECURSIVE ChunkLoop(_, _, _, _, _)
ChunkLoop(bytes, frame_id, payload_size, offset, chunk_index) ==
    IF offset >= Len(bytes)
    THEN <<>>
    ELSE <<ChunkPacket(frame_id, chunk_index, ChunkSlice(bytes, offset, payload_size))>>
         \o ChunkLoop(bytes, frame_id, payload_size, offset + payload_size, chunk_index + 1)

build_frame_packets(bytes, frame_id, payload_size) ==
    LET ps == EffectivePayloadSize(payload_size)
        size == Len(bytes)
        chunk_count == ChunkCount(size, ps)
    IN  <<FrameStartPacket(frame_id, size, chunk_count)>>
        \o ChunkLoop(bytes, frame_id, ps, 0, 0)

-----------------------------------------------------------------------------
(* client_example.py: the frame reassembler *)

\* dict assignment d[k] = v
Put(f, k, v) == [x \in DOMAIN f \cup {k} |-> IF x = k THEN v ELSE f[x]]

\* dict.pop(k, None)
Pop(f, k) == [x \in DOMAIN f \ {k} |-> f[x]]

\* what a handler leaves behind: the two tables, the frames it handed to
\* _process_complete_frame, and whether it raised
Outcome(pf, ec, out, raised) ==
    [pending_frames |-> pf, expected_chunks |-> ec, emitted |-> out, raised |-> raised]

\* bytearray(frame_size): frame_size zero bytes
NewBuffer(frame_size) == [i \in 1..frame_size |-> 0]

\* struct.unpack("LLL", data[11:23])
FrameStartFields(d, plat) ==
    NativeUnpack(Slice(d, FRAME_START_PREFIX_LEN, FRAME_START_MIN_LEN), 3, plat)

\* struct.unpack("LL", data[5:13])
ChunkFields(d, plat) ==
    NativeUnpack(Slice(d, CHUNK_PREFIX_LEN, CHUNK_MIN_LEN), 2, plat)

\* payload = data[13:]
ChunkPayload(d) == Slice(d, CHUNK_MIN_LEN, Len(d))

\* variant: the largest id is taken for the oldest
oldest_frame_max(pf) == CHOOSE x \in DOMAIN pf : \A y \in DOMAIN pf : y <= x

\* oldest_frame = min(self.pending_frames.keys())
oldest_frame(pf) == Min(DOMAIN pf)

\* variant: the table is trimmed one entry later
EvictOldest_late(pf, ec) ==
    IF Cardinality(DOMAIN pf) > MAX_PENDING + 1
    THEN Outcome(Pop(pf, oldest_frame(pf)), Pop(ec, oldest_frame(pf)), <<>>, FALSE)
    ELSE Outcome(pf, ec, <<>>, FALSE)

\* if len(self.pending_frames) > 5: pop oldest_frame from both tables
EvictOldest(pf, ec) ==
    IF Cardinality(DOMAIN pf) > MAX_PENDING
    THEN Outcome(Pop(pf, oldest_frame(pf)), Pop(ec, oldest_frame(pf)), <<>>, FALSE)
    ELSE Outcome(pf, ec, <<>>, FALSE)

\* variant: a frame-start for a pending id keeps the buffer it finds
StartFrame_keep(pf, ec, frame_id, frame_size, chunk_count) ==
    IF frame_id \in DOMAIN pf
    THEN EvictOldest(pf, Put(ec, frame_id, chunk_count))
    ELSE EvictOldest(Put(pf, frame_id, NewBuffer(frame_size)),
                     Put(ec, frame_id, chunk_count))

\* self.pending_frames[frame_id] = bytearray(frame_size)
\* self.expected_chunks[frame_id] = chunk_count
StartFrame(pf, ec, frame_id, frame_size, chunk_count) ==
    EvictOldest(Put(pf, frame_id, NewBuffer(frame_size)), Put(ec, frame_id, chunk_count))

\* variant: no datagram is taken for too short
IsShort_never(d, min_len) == FALSE

\* if len(data) < 23: return, and if len(data) < 13: return
IsShort(d, min_len) == Len(d) < min_len

\* _handle_frame_start(data)
handle_frame_start(pf, ec, d, plat) ==
    IF IsShort(d, FRAME_START_MIN_LEN)
    THEN Outcome(pf, ec, <<>>, FALSE)
    ELSE LET u == FrameStartFields(d, plat)
         IN  IF ~u.ok
             THEN Outcome(pf, ec, <<>>, TRUE)
             ELSE StartFrame(pf, ec, u.vals[1], u.vals[2], u.vals[3])

\* self.pending_frames.pop(frame_id, None); self.expected_chunks.pop(frame_id, None)
\* and the frame goes to the consumer (decode and display, errors caught inside)
process_complete_frame(pf, ec, frame_id, frame_data) ==
    Outcome(Pop(pf, frame_id), Pop(ec, frame_id),
            <<[frame_id |-> frame_id, frame_data |-> frame_data]>>, FALSE)

\* variant: only the start of the range is checked
ChunkFits_start(offset, chunk, frame_buffer) == offset <= Len(frame_buffer)

\* if offset + len(payload) <= len(frame_buffer)
ChunkFits(offset, chunk, frame_buffer) == offset + Len(chunk) <= Len(frame_buffer)

\* frame_buffer[offset:offset + len(payload)] = payload: the bytes before the
\* range, the payload, the bytes after the range
WriteChunk(frame_buffer, offset, chunk) ==
    SubSeq(frame_buffer, 1, offset) \o chunk
        \o SubSeq(frame_buffer, offset + Len(chunk) + 1, Len(frame_buffer))

\* the accepted chunk: copy, decrement, complete on zero
PlaceChunk(pf, ec, frame_id, chunk_index, chunk) ==
    LET offset == chunk_index * CHUNK_STRIDE
        frame_buffer == pf[frame_id]
    IN  IF ChunkFits(offset, chunk, frame_buffer)
        THEN LET nb == WriteChunk(frame_buffer, offset, chunk)
                 pf1 == [pf EXCEPT ![frame_id] = nb]
             IN  IF frame_id \notin DOMAIN ec
                 THEN Outcome(pf1, ec, <<>>, TRUE)
                 ELSE LET ec1 == [ec EXCEPT ![frame_id] = @ - 1]
                      IN  IF ec1[frame_id] = 0
                          THEN process_complete_frame(pf1, ec1, frame_id, nb)
                          ELSE Outcome(pf1, ec1, <<>>, FALSE)
        ELSE Outcome(pf, ec, <<>>, FALSE)

\* variant: a chunk for an unknown id gets an entry made for it (a defaultdict)
handle_chunk_create(pf, ec, d, plat) ==
    IF Len(d) < CHUNK_MIN_LEN
    THEN Outcome(pf, ec, <<>>, FALSE)
    ELSE LET u == ChunkFields(d, plat)
         IN  IF ~u.ok
             THEN Outcome(pf, ec, <<>>, TRUE)
             ELSE PlaceChunk(IF u.vals[1] \in DOMAIN pf THEN pf ELSE Put(pf, u.vals[1], <<>>),
                             IF u.vals[1] \in DOMAIN ec THEN ec ELSE Put(ec, u.vals[1], 0),
                             u.vals[1], u.vals[2], ChunkPayload(d))

handle_chunk(pf, ec, d, plat) ==
    IF IsShort(d, CHUNK_MIN_LEN)
    THEN Outcome(pf, ec, <<>>, FALSE)
    ELSE LET u == ChunkFields(d, plat)
         IN  IF ~u.ok
             THEN Outcome(pf, ec, <<>>, TRUE)
             ELSE IF u.vals[1] \notin DOMAIN pf
                  THEN Outcome(pf, ec, <<>>, FALSE)
                  ELSE PlaceChunk(pf, ec, u.vals[1], u.vals[2], ChunkPayload(d))

\* the body of the receive loop: dispatch on the prefix
Dispatch(pf, ec, d, plat) ==
    IF StartsWith(d, FRAME_START)
    THEN handle_frame_start(pf, ec, d, plat)
    ELSE IF StartsWith(d, CHUNK)
         THEN handle_chunk(pf, ec, d, plat)
         ELSE Outcome(pf, ec, <<>>, FALSE)

\* history kept beside the tables: for each pending id the chunk_count of its
\* latest frame-start, the chunk indices accepted since then, and whether that
\* frame-start replaced an entry that had already accepted a chunk
SeenAfter(seen, pf, ec, r, d, plat) ==
    LET isStart == StartsWith(d, FRAME_START) /\ Len(d) >= FRAME_START_MIN_LEN
                   /\ FrameStartFields(d, plat).ok
        isChunk == ~StartsWith(d, FRAME_START) /\ StartsWith(d, CHUNK)
                   /\ Len(d) >= CHUNK_MIN_LEN /\ ChunkFields(d, plat).ok
        s1 == IF isStart
              THEN Put(seen, FrameStartFields(d, plat).vals[1],
                       [count |-> FrameStartFields(d, plat).vals[3], indices |-> {},
                        replaced |-> /\ FrameStartFields(d, plat).vals[1] \in DOMAIN seen
                                     /\ seen[FrameStartFields(d, plat).vals[1]].indices # {}])
              ELSE IF isChunk /\ ChunkFields(d, plat).vals[1] \in DOMAIN pf
                      /\ ChunkFits(ChunkFields(d, plat).vals[2] * CHUNK_STRIDE,
                                   ChunkPayload(d), pf[ChunkFields(d, plat).vals[1]])
                   THEN [seen EXCEPT ![ChunkFields(d, plat).vals[1]].indices =
                                        @ \cup {ChunkFields(d, plat).vals[2]}]
                   ELSE seen
    IN  [x \in DOMAIN r.pending_frames |->
            IF x \in DOMAIN s1
            THEN s1[x]
            ELSE [count |-> 0, indices |-> {}, replaced |-> FALSE]]

\* the model follows a delivery only while the values it decodes fit the
\* model's integers (below 2^31), the buffer it allocates and the offset it
\* computes stay small, and no counter is taken further below zero than
\* MaxUnderflow
WithinBounds(pf, ec, d, plat) ==
    /\ (StartsWith(d, FRAME_START) /\ Len(d) >= FRAME_START_MIN_LEN /\ plat.longsize = 4)
         => /\ \A k \in 0..2 :
                  TopByte(Slice(d, FRAME_START_PREFIX_LEN + 4 * k,
                                FRAME_START_PREFIX_LEN + 4 * k + 4), plat.order) <= 127
            /\ FrameStartFields(d, plat).vals[2] <= MaxFrameSize
            /\ FrameStartFields(d, plat).vals[3] <= MaxChunkCount
    /\ (~StartsWith(d, FRAME_START) /\ StartsWith(d, CHUNK) /\ Len(d) >= CHUNK_MIN_LEN
          /\ plat.longsize = 4)
         => /\ \A k \in 0..1 :
                  TopByte(Slice(d, CHUNK_PREFIX_LEN + 4 * k,
                                CHUNK_PREFIX_LEN + 4 * k + 4), plat.order) <= 127
            /\ ChunkFields(d, plat).vals[2] <= MaxChunkIndex
    /\ (StartsWith(d, CHUNK) /\ Len(d) >= CHUNK_MIN_LEN /\ plat.longsize = 4
          /\ ChunkFields(d, plat).vals[1] \in DOMAIN ec)
         => ec[ChunkFields(d, plat).vals[1]] > 0 - MaxUnderflow

\* one iteration of the loop in start_streaming on datagram d; esc says whether
\* the consumer saw the ESC key while showing a completed frame
Deliver(d, esc) ==
    LET r == Dispatch(pending_frames, expected_chunks, d, native)
    IN  /\ running
        /\ WithinBounds(pending_frames, expected_chunks, d, native)
        /\ esc => r.emitted # <<>>
        /\ data' = d
        /\ pending_frames' = r.pending_frames
        /\ expected_chunks' = r.expected_chunks
        /\ emitted' = r.emitted
        /\ running' = (~r.raised /\ ~(r.emitted # <<>> /\ esc))
        /\ chunks_seen' = SeenAfter(chunks_seen, pending_frames, expected_chunks,
                                    r, d, native)
        /\ UNCHANGED <<native, traffic>>

-----------------------------------------------------------------------------
(* Inputs *)

\* the empty dict
EmptyMap == [x \in {} |-> 0]

\* native "L": 4 bytes little-endian (32-bit ARM, Windows), 4 bytes big-endian,
\* or 8 bytes (64-bit Linux and macOS, where unpacking 4 * n bytes raises)
Platforms ==
    { [longsize |-> 4, order |-> "little"],
      [longsize |-> 4, order |-> "big"],
      [longsize |-> 8, order |-> "little"] }

\* a payload of n bytes, every byte non-zero and telling its position
Ramp(n) == [i \in 1..n |-> 1 + ((i - 1) % 251)]

\* n bytes of the same value
Fill(n, b) == [i \in 1..n |-> b]

PayloadLens == {0, 1, 2, 3, 400, 1000, 1200, 1201, 2400, 2500}
PayloadSizes == {-1, 0, 1, 400, 1000, 1200, 1300}
\* 0x7FFFFF7F: a frame id near the top of the range (the model's integers
\* end at 2^31 - 1) that reads the same in both byte orders
LargeId == 127 * 16777216 + 255 * 65536 + 255 * 256 + 127
FrameIds == {0, 123, LargeId}

\* the (length, payload_size) pairs that packetize into at most MaxChunks chunks
WireInputs ==
    { <<n, s>> \in PayloadLens \X PayloadSizes :
        ChunkCount(n, EffectivePayloadSize(s)) <= MaxChunks }

\* traffic that fills the pending table: one-chunk frames on seven ids
WideIds == {0, 1, 2, 3, 4, 5, LargeId}
EvictionTraffic ==
    { FrameStartPacket(id, 1, 1) : id \in WideIds }
    \cup { ChunkPacket(id, 0, <<65>>) : id \in WideIds }

\* traffic that exercises reassembly: on id 1 every mix of sizes, counts,
\* indices and payload lengths, on a second id one two-chunk frame, and
\* truncated and foreign datagrams
ChunkBodies == { <<>>, <<65>>, Fill(DEFAULT_PAYLOAD_SIZE, 66) }
ReassemblyTraffic ==
    { FrameStartPacket(1, sz, n) : sz \in {0, 1201}, n \in 0..2 }
    \cup { ChunkPacket(1, k, b) : k \in 0..1, b \in ChunkBodies }
    \cup { FrameStartPacket(LargeId, 1201, 2),
           ChunkPacket(LargeId, 0, Fill(DEFAULT_PAYLOAD_SIZE, 67)),
           ChunkPacket(LargeId, 1, <<68>>) }
    \cup { FRAME_START,
           SubSeq(FrameStartPacket(1, 1201, 2), 1, FRAME_START_MIN_LEN - 1),
           SubSeq(ChunkPacket(1, 0, <<>>), 1, CHUNK_MIN_LEN - 1),
           <<72, 69, 76, 76, 79>> }

\* the datagrams of a kind of traffic
Datagrams(kind) ==
    IF kind = "eviction" THEN EvictionTraffic
    ELSE IF kind = "reassembly" THEN ReassemblyTraffic
    ELSE {}

-----------------------------------------------------------------------------
(* streamer.py: the session table *)

\* b"REGISTER_CLIENT", b"KEEPALIVE", b"DISCONNECT", b"REGISTERED"
REGISTER_CLIENT == <<82, 69, 71, 73, 83, 84, 69, 82, 95, 67, 76, 73, 69, 78, 84>>
KEEPALIVE == <<75, 69, 69, 80, 65, 76, 73, 86, 69>>
DISCONNECT == <<68, 73, 83, 67, 79, 78, 78, 69, 67, 84>>
REGISTERED == <<82, 69, 71, 73, 83, 84, 69, 82, 69, 68>>

\* Python's None where an address is expected
None == <<"", 0>>

\* list(d.keys()): the keys in insertion order
Keys(c) == [i \in 1..Len(c) |-> c[i].addr]

\* k in d
HasKey(c, k) == \E i \in 1..Len(c) : c[i].addr = k

\* d[k]
Lookup(c, k) == c[CHOOSE i \in 1..Len(c) : c[i].addr = k].last_seen

\* variant: the entry is always added at the end
DictSet_append(c, k, v) == Append(c, [addr |-> k, last_seen |-> v])

\* d[k] = v: a key that is present keeps its place, a new key goes last
DictSet(c, k, v) ==
    IF HasKey(c, k)
    THEN [i \in 1..Len(c) |-> IF c[i].addr = k THEN [addr |-> k, last_seen |-> v] ELSE c[i]]
    ELSE Append(c, [addr |-> k, last_seen |-> v])

\* del d[k], for a key that is present
DictDel(c, k) == SelectSeq(c, LAMBDA e : e.addr # k)

\* the loop "for registered_addr in keys: if registered_addr[0] == ip: ... break"
\* over a list: the first key with that IP, None when there is none
FirstMatch(keys, ip) ==
    IF \E i \in 1..Len(keys) : keys[i][1] = ip
    THEN keys[Min({i \in 1..Len(keys) : keys[i][1] = ip})]
    ELSE None

\* current_time - last_seen > self.client_timeout
IsInactive(current_time, last_seen) == current_time - last_seen > CLIENT_TIMEOUT

\* a Python int in 0..2^32 kept as two halves, value = hi * 65536 + lo (the
\* model's integers end at 2^31 - 1)
Zero32 == [hi |-> 0, lo |-> 0]

\* x + 1
Add1(x) ==
    IF x.lo = 65535 THEN [hi |-> x.hi + 1, lo |-> 0] ELSE [hi |-> x.hi, lo |-> x.lo + 1]

\* variant: the sum is kept as it is
Mask32_none(x) == x

\* x & 0xFFFFFFFF
Mask32(x) == [hi |-> x.hi % 65536, lo |-> x.lo]

\* the integer handed to struct.pack("<I", ...) for x: the value itself below
\* 2^31, and above it the integer with the same four bytes, x - 2^32
PackArg(x) ==
    IF x.hi < 32768 THEN x.hi * 65536 + x.lo ELSE (x.hi - 65536) * 65536 + x.lo

-----------------------------------------------------------------------------
(* The server's surroundings *)

\* what the network may deliver to the server: the three messages and one
\* datagram that is none of them
ServerDatagrams == {REGISTER_CLIENT, KEEPALIVE, DISCONNECT, <<72, 69, 76, 76, 79>>}

\* the same and, for each tag, a datagram that goes on after it:
\* b"REGISTER_CLIENT!", b"KEEPALIVE\n", b"DISCONNECT\n"
TaggedDatagrams ==
    ServerDatagrams \cup {REGISTER_CLIENT \o <<33>>, KEEPALIVE \o <<10>>, DISCONNECT \o <<10>>}

\* the source addresses datagrams come from: two ports of one host, or one
\* port on each of two hosts
Sources(kind) ==
    IF kind = "same_ip" THEN {<<"10.0.0.1", 5000>>, <<"10.0.0.1", 5001>>}
    ELSE IF kind = "two_ips" THEN {<<"10.0.0.1", 5000>>, <<"10.0.0.2", 5000>>}
    ELSE {}

\* the payloads the payload source hands out
PayloadSource == {Ramp(3)}

\* the amounts by which the clock is seen to advance: the timeout exactly,
\* and one second more
TickSteps == {CLIENT_TIMEOUT, CLIENT_TIMEOUT + 1}

\* the runs of the server that are followed: who sends datagrams, which
\* sender loop runs, and next_frame_id as constructed or as it stands
\* 2^32 - 2 cycles later
Setups ==
    { [peers |-> "same_ip", use_h264 |-> FALSE, next_frame_id |-> Zero32],
      [peers |-> "two_ips", use_h264 |-> TRUE,
       next_frame_id |-> [hi |-> 65535, lo |-> 65534]] }

-----------------------------------------------------------------------------
(* streamer.py: listen_for_clients *)

\* the listener between two datagrams
ListenerIdle == [pc |-> "recv", addr |-> None, used |-> 0, pos |-> 0, client_addr |-> None]

\* one turn of "for registered_addr in self.clients.keys()" for the listener
\* at l: the iterator raises RuntimeError when the dict has changed size since
\* the loop began, and the listener's "except Exception" ends its loop;
\* otherwise the loop ends, finds its match, or moves on
ScanTurn(l, c) ==
    IF Len(c) # l.used
    THEN [ListenerIdle EXCEPT !.pc = "done"]
    ELSE IF l.pos > Len(c)
         THEN ListenerIdle
         ELSE IF c[l.pos].addr[1] = l.addr[1]
              THEN [ListenerIdle EXCEPT !.pc = "ka_store", !.addr = l.addr,
                                        !.client_addr = c[l.pos].addr]
              ELSE [l EXCEPT !.pc = "ka_scan", !.pos = @ + 1]

\* recvfrom returned (d, addr) at time t: the dispatch and the handler up to
\* and including its first access to self.clients (for KEEPALIVE, the first
\* turn of the lookup loop)
OnDatagram(c, d, addr, t) ==
    IF StartsWith(d, REGISTER_CLIENT)
    THEN [clients |-> DictSet(c, addr, t),
          listener |-> [ListenerIdle EXCEPT !.pc = "ack", !.addr = addr]]
    ELSE IF d = KEEPALIVE
         THEN [clients |-> c,
               listener |-> ScanTurn([ListenerIdle EXCEPT !.addr = addr,
                                                          !.used = Len(c), !.pos = 1], c)]
         ELSE IF d = DISCONNECT /\ FirstMatch(Keys(c), addr[1]) # None
              THEN [clients |-> c,
                    listener |-> [ListenerIdle EXCEPT
                                    !.pc = "dc_del",
                                    !.client_addr = FirstMatch(Keys(c), addr[1])]]
              ELSE [clients |-> c, listener |-> ListenerIdle]

\* variant: a loop that does not look at the flag
LoopContinues_always(flag) == TRUE

\* while self.running
LoopContinues(flag) == flag

\* while self.running: data, addr = self.socket.recvfrom(1024) returns
\* (d, addr), and the branch taken (recvfrom on the closed socket raises: see
\* ListenerExit)
ListenerTakes(d, addr) ==
    /\ listener.pc = "recv"
    /\ LoopContinues(streamer_running)
    /\ ~socket_closed
    /\ clients' = OnDatagram(clients, d, addr, now).clients
    /\ listener' = OnDatagram(clients, d, addr, now).listener
    /\ registered' = IF StartsWith(d, REGISTER_CLIENT)
                     THEN registered \cup {addr}
                     ELSE registered
    /\ sent' = <<>>
    /\ UNCHANGED <<next_frame_id, use_h264, now, sender, sweeper, frames_taken, peers,
                   acked>>
    /\ UNCHANGED <<sideVars, wireVars, recvVars, shutdownVars>>

\* the listener receives some datagram from some host
ListenerRecv ==
    \E d \in ServerDatagrams, addr \in Sources(peers) :
        ListenerTakes(d, addr) /\ UNCHANGED <<received, clientVars>>

\* the same with note taken of what was received, and with datagrams that
\* carry something after the tag
ListenerRecvNoted ==
    \E d \in TaggedDatagrams, addr \in Sources(peers) :
        /\ ListenerTakes(d, addr)
        /\ received' = [data |-> d, addr |-> addr]
        /\ UNCHANGED clientVars

\* self.socket.sendto(b"REGISTERED", addr); on the closed socket it raises
\* OSError and the listener's "except Exception" ends its loop
ListenerAck ==
    /\ listener.pc = "ack"
    /\ IF socket_closed
       THEN /\ sent' = <<>>
            /\ listener' = [ListenerIdle EXCEPT !.pc = "done"]
            /\ acked' = acked
       ELSE /\ sent' = <<[to |-> listener.addr, data |-> REGISTERED]>>
            /\ listener' = ListenerIdle
            /\ acked' = acked \cup {listener.addr}
    /\ UNCHANGED <<clients, next_frame_id, use_h264, now, sender, sweeper,
                   frames_taken, registered, peers>>
    /\ UNCHANGED <<clientVars, sideVars, wireVars, recvVars, shutdownVars, received>>

\* a further turn of the lookup loop
ListenerScan ==
    /\ listener.pc = "ka_scan"
    /\ listener' = ScanTurn(listener, clients)
    /\ sent' = <<>>
    /\ UNCHANGED <<clients, next_frame_id, use_h264, now, sender, sweeper,
                   frames_taken, registered, peers>>
    /\ UNCHANGED <<clientVars, sideVars, wireVars, recvVars, shutdownVars, received, acked>>

\* variant: the keepalive is filed under the address it came from
RefreshKey_source(l) == l.addr

\* the key a keepalive refreshes: the registered address the lookup found
RefreshKey(l) == l.client_addr

\* if client_addr: self.clients[client_addr] = time.time()
ListenerRefresh ==
    /\ listener.pc = "ka_store"
    /\ clients' = DictSet(clients, RefreshKey(listener), now)
    /\ listener' = ListenerIdle
    /\ sent' = <<>>
    /\ UNCHANGED <<next_frame_id, use_h264, now, sender, sweeper, frames_taken,
                   registered, peers>>
    /\ UNCHANGED <<clientVars, sideVars, wireVars, recvVars, shutdownVars, received, acked>>

\* if client_addr: del self.clients[client_addr]; KeyError when the key has
\* gone since the lookup, and the listener's "except Exception" ends its loop
ListenerRemove ==
    /\ listener.pc = "dc_del"
    /\ IF HasKey(clients, listener.client_addr)
       THEN /\ clients' = DictDel(clients, listener.client_addr)
            /\ listener' = ListenerIdle
       ELSE /\ clients' = clients
            /\ listener' = [ListenerIdle EXCEPT !.pc = "done"]
    /\ sent' = <<>>
    /\ UNCHANGED <<next_frame_id, use_h264, now, sender, sweeper, frames_taken,
                   registered, peers>>
    /\ UNCHANGED <<clientVars, sideVars, wireVars, recvVars, shutdownVars, received, acked>>

-----------------------------------------------------------------------------
(* streamer.py: cleanup_inactive_clients *)

\* the sweep thread in time.sleep(5)
SweeperIdle ==
    [pc |-> "sleep", current_time |-> 0, used |-> 0, pos |-> 0, inactive |-> <<>>]

\* one turn of "for client_addr, last_seen in self.clients.items()" for the
\* sweep at w: the iterator raises RuntimeError when the dict has changed size
\* since the loop began, and the thread's "except Exception" ends its loop;
\* otherwise the loop ends or looks at the next entry
SweepTurn(w, c) ==
    IF Len(c) # w.used
    THEN [SweeperIdle EXCEPT !.pc = "done"]
    ELSE IF w.pos > Len(c)
         THEN IF w.inactive = <<>>
              THEN SweeperIdle
              ELSE [w EXCEPT !.pc = "del", !.used = 0, !.pos = 0]
         ELSE [w EXCEPT
                 !.pc = "scan",
                 !.pos = @ + 1,
                 !.inactive = IF IsInactive(w.current_time, c[w.pos].last_seen)
                              THEN Append(@, c[w.pos].addr)
                              ELSE @]

\* current_time = time.time(); inactive_clients = []; the loop over
\* self.clients.items() begins and takes its first turn
SweepBegin ==
    /\ sweeper.pc = "sleep"
    /\ LoopContinues(streamer_running)
    /\ sweeper' = SweepTurn([SweeperIdle EXCEPT !.current_time = now,
                                                !.used = Len(clients), !.pos = 1],
                            clients)
    /\ sent' = <<>>
    /\ UNCHANGED <<clients, next_frame_id, use_h264, now, listener, sender,
                   frames_taken, registered, peers>>
    /\ UNCHANGED <<clientVars, sideVars, wireVars, recvVars, shutdownVars, received, acked>>

\* a further turn of the scan
SweepScan ==
    /\ sweeper.pc = "scan"
    /\ sweeper' = SweepTurn(sweeper, clients)
    /\ sent' = <<>>
    /\ UNCHANGED <<clients, next_frame_id, use_h264, now, listener, sender,
                   frames_taken, registered, peers>>
    /\ UNCHANGED <<clientVars, sideVars, wireVars, recvVars, shutdownVars, received, acked>>

\* one turn of "for client_addr in inactive_clients: del self.clients[client_addr]";
\* KeyError when the key has gone since the scan, which ends the thread's loop
SweepRemove ==
    /\ sweeper.pc = "del"
    /\ IF HasKey(clients, Head(sweeper.inactive))
       THEN /\ clients' = DictDel(clients, Head(sweeper.inactive))
            /\ sweeper' = IF Tail(sweeper.inactive) = <<>>
                          THEN SweeperIdle
                          ELSE [sweeper EXCEPT !.inactive = Tail(@)]
       ELSE /\ clients' = clients
            /\ sweeper' = [SweeperIdle EXCEPT !.pc = "done"]
    /\ sent' = <<>>
    /\ UNCHANGED <<next_frame_id, use_h264, now, listener, sender, frames_taken,
                   registered, peers>>
    /\ UNCHANGED <<clientVars, sideVars, wireVars, recvVars, shutdownVars, received, acked>>

-----------------------------------------------------------------------------
(* streamer.py: stream_to_clients and stream_h264_to_clients *)

\* the streaming thread at the head of its loop
SenderIdle == [pc |-> "check", data |-> <<>>, targets |-> 0, disconnected |-> <<>>]

\* a check that never finds the table empty
NoSessions_never(c) == FALSE

\* not self.clients
NoSessions(c) == c = <<>>

\* if not self.clients: time.sleep(0.1); continue
SenderCheck ==
    /\ sender.pc = "check"
    /\ LoopContinues(streamer_running)
    /\ sender' = [SenderIdle EXCEPT !.pc = IF NoSessions(clients) THEN "sleep" ELSE "capture"]
    /\ sent' = <<>>
    /\ UNCHANGED <<clients, next_frame_id, use_h264, now, listener, sweeper,
                   frames_taken, registered, peers>>
    /\ UNCHANGED <<clientVars, sideVars, wireVars, recvVars, shutdownVars, received, acked>>

\* the sleep is over: continue
SenderSleep ==
    /\ sender.pc = "sleep"
    /\ sender' = SenderIdle
    /\ sent' = <<>>
    /\ UNCHANGED <<clients, next_frame_id, use_h264, now, listener, sweeper,
                   frames_taken, registered, peers>>
    /\ UNCHANGED <<clientVars, sideVars, wireVars, recvVars, shutdownVars, received, acked>>

\* the payload source: capture_frame, imencode and pickle.dumps give a payload;
\* self.h264_output.get_chunk() gives a chunk or None (written <<>> here),
\* and "if not chunk: time.sleep(0.005); continue"
SenderCapture ==
    /\ sender.pc = "capture"
    /\ frames_taken < MaxCycles
    /\ \E p \in PayloadSource \cup (IF use_h264 THEN {<<>>} ELSE {}) :
          IF p = <<>>
          THEN /\ sender' = [SenderIdle EXCEPT !.pc = "sleep"]
               /\ frames_taken' = frames_taken
          ELSE /\ sender' = [SenderIdle EXCEPT !.pc = "fanout", !.data = p]
               /\ frames_taken' = frames_taken + 1
    /\ sent' = <<>>
    /\ UNCHANGED <<clients, next_frame_id, use_h264, now, listener, sweeper,
                   registered, peers>>
    /\ UNCHANGED <<clientVars, sideVars, wireVars, recvVars, shutdownVars, received, acked>>

\* send_frame_to_client(data, client_addr, frame_id) that gets k packets out:
\* all of them, or fewer when the sendto after the k-th raises
SendsTo(client_addr, pkts, k) ==
    [j \in 1..k |-> [to |-> client_addr, data |-> pkts[j]]]

\* the sendto calls of "for client_addr in list(self.clients.keys())", where
\* outcome[a] packets reach the socket for key a
RECURSIVE FanoutSends(_, _, _, _)
FanoutSends(snapshot, pkts, outcome, i) ==
    IF i > Len(snapshot)
    THEN <<>>
    ELSE SendsTo(snapshot[i], pkts, outcome[snapshot[i]])
         \o FanoutSends(snapshot, pkts, outcome, i + 1)

\* disconnected_clients: the keys whose send raised, in the order of the pass
MarkFailed(snapshot, n, outcome) == SelectSeq(snapshot, LAMBDA a : outcome[a] < n)

\* frame_id = self.next_frame_id and the whole fan-out over the snapshot
\* list(self.clients.keys()); the table is not touched.  On the closed socket
\* every sendto raises
SenderFanout ==
    /\ sender.pc = "fanout"
    /\ LET snapshot == Keys(clients)
           pkts == build_frame_packets(sender.data, PackArg(next_frame_id),
                                       CHUNK_PAYLOAD_SIZE)
       IN  \E outcome \in [{snapshot[i] : i \in 1..Len(snapshot)} ->
                               0..(IF socket_closed THEN 0 ELSE Len(pkts))] :
              /\ sent' = FanoutSends(snapshot, pkts, outcome, 1)
              /\ sender' =
                    LET d == MarkFailed(snapshot, Len(pkts), outcome)
                    IN  [sender EXCEPT !.pc = IF d = <<>> THEN "advance" ELSE "remove_check",
                                       !.targets = Len(snapshot),
                                       !.disconnected = d]
    /\ UNCHANGED <<clients, next_frame_id, use_h264, now, listener, sweeper,
                   frames_taken, registered, peers>>
    /\ UNCHANGED <<clientVars, sideVars, wireVars, recvVars, shutdownVars, received, acked>>

\* the sender after it is done with the head of disconnected_clients
AfterRemoval(s) ==
    [s EXCEPT !.pc = IF Tail(s.disconnected) = <<>> THEN "advance" ELSE "remove_check",
              !.disconnected = Tail(@)]

\* "if client_addr in self.clients" for the next failed session
SenderRemoveCheck ==
    /\ sender.pc = "remove_check"
    /\ sender' = IF HasKey(clients, Head(sender.disconnected))
                 THEN [sender EXCEPT !.pc = "remove_del"]
                 ELSE AfterRemoval(sender)
    /\ sent' = <<>>
    /\ UNCHANGED <<clients, next_frame_id, use_h264, now, listener, sweeper,
                   frames_taken, registered, peers>>
    /\ UNCHANGED <<clientVars, sideVars, wireVars, recvVars, shutdownVars, received, acked>>

\* "del self.clients[client_addr]"; KeyError when the key has gone since the
\* test, which ends the loop (caught by the outer except in stream_to_clients,
\* uncaught in stream_h264_to_clients)
SenderRemove ==
    /\ sender.pc = "remove_del"
    /\ IF HasKey(clients, Head(sender.disconnected))
       THEN /\ clients' = DictDel(clients, Head(sender.disconnected))
            /\ sender' = AfterRemoval(sender)
       ELSE /\ clients' = clients
            /\ sender' = [SenderIdle EXCEPT !.pc = "done"]
    /\ sent' = <<>>
    /\ UNCHANGED <<next_frame_id, use_h264, now, listener, sweeper, frames_taken,
                   registered, peers>>
    /\ UNCHANGED <<clientVars, sideVars, wireVars, recvVars, shutdownVars, received, acked>>

\* self.next_frame_id = (self.next_frame_id + 1) & 0xFFFFFFFF, and the loop
\* goes round
SenderAdvance ==
    /\ sender.pc = "advance"
    /\ next_frame_id' = Mask32(Add1(next_frame_id))
    /\ sender' = SenderIdle
    /\ sent' = <<>>
    /\ UNCHANGED <<clients, use_h264, now, listener, sweeper, frames_taken, registered, peers>>
    /\ UNCHANGED <<clientVars, sideVars, wireVars, recvVars, shutdownVars, received, acked>>

\* time passes
Tick ==
    /\ \E d \in TickSteps : /\ now + d <= MaxTime
                            /\ now' = now + d
    /\ sent' = <<>>
    /\ UNCHANGED <<clients, next_frame_id, use_h264, listener, sender, sweeper,
                   frames_taken, registered, peers>>
    /\ UNCHANGED <<clientVars, sideVars, wireVars, recvVars, shutdownVars, received, acked>>

-----------------------------------------------------------------------------
(* streamer.py: stop, and the three loops leaving *)

\* stop(): self.running = False
StopFlag ==
    /\ streamer_running
    /\ streamer_running' = FALSE
    /\ sent' = <<>>
    /\ UNCHANGED <<clients, next_frame_id, use_h264, now, listener, sender, sweeper,
                   frames_taken, registered, peers, socket_closed>>
    /\ UNCHANGED <<clientVars, sideVars, wireVars, recvVars, received, acked>>

\* stop(): self.socket.close()
StopClose ==
    /\ ~streamer_running
    /\ ~socket_closed
    /\ socket_closed' = TRUE
    /\ sent' = <<>>
    /\ UNCHANGED <<clients, next_frame_id, use_h264, now, listener, sender, sweeper,
                   frames_taken, registered, peers, streamer_running>>
    /\ UNCHANGED <<clientVars, sideVars, wireVars, recvVars, received, acked>>

\* the listener finds self.running false at "while self.running" (after a
\* datagram, after "except socket.timeout: continue"), or its recvfrom raises on
\* the closed socket and "except Exception" breaks
ListenerExit ==
    /\ listener.pc = "recv"
    /\ ~LoopContinues(streamer_running) \/ socket_closed
    /\ listener' = [ListenerIdle EXCEPT !.pc = "done"]
    /\ sent' = <<>>
    /\ UNCHANGED <<clients, next_frame_id, use_h264, now, sender, sweeper,
                   frames_taken, registered, peers>>
    /\ UNCHANGED <<clientVars, sideVars, wireVars, recvVars, shutdownVars, received, acked>>

\* the streaming thread finds self.running false at "while self.running"
SenderExit ==
    /\ sender.pc = "check"
    /\ ~LoopContinues(streamer_running)
    /\ sender' = [SenderIdle EXCEPT !.pc = "done"]
    /\ sent' = <<>>
    /\ UNCHANGED <<clients, next_frame_id, use_h264, now, listener, sweeper,
                   frames_taken, registered, peers>>
    /\ UNCHANGED <<clientVars, sideVars, wireVars, recvVars, shutdownVars, received, acked>>

\* the sweep thread finds self.running false after its time.sleep(5)
SweeperExit ==
    /\ sweeper.pc = "sleep"
    /\ ~LoopContinues(streamer_running)
    /\ sweeper' = [SweeperIdle EXCEPT !.pc = "done"]
    /\ sent' = <<>>
    /\ UNCHANGED <<clients, next_frame_id, use_h264, now, listener, sender,
                   frames_taken, registered, peers>>
    /\ UNCHANGED <<clientVars, sideVars, wireVars, recvVars, shutdownVars, received, acked>>

-----------------------------------------------------------------------------
(* client_example.py: clients that connect and keep their keepalives coming *)

\* time.sleep(15) in send_keepalive
KEEPALIVE_PERIOD == 15

\* time.sleep(5) in cleanup_inactive_clients
SWEEP_PERIOD == 5

\* connect(): self.socket.sendto(b"REGISTER_CLIENT", ...)
ClientConnect(a) ==
    /\ client_pc[a] = "idle"
    /\ client_pc' = [client_pc EXCEPT ![a] = "connecting"]
    /\ inflight' = Append(inflight, [data |-> REGISTER_CLIENT, addr |-> a])
    /\ sent' = <<>>
    /\ UNCHANGED <<keepalive_due, clients, next_frame_id, use_h264, now, listener, sender,
                   sweeper, frames_taken, registered, peers, received, acked>>
    /\ UNCHANGED <<sideVars, wireVars, recvVars, shutdownVars>>

\* connect() has received b"REGISTERED"; start_streaming starts the keepalive
\* thread, whose first KEEPALIVE goes out at once
ClientStart(a) ==
    /\ client_pc[a] = "connecting"
    /\ a \in acked
    /\ client_pc' = [client_pc EXCEPT ![a] = "streaming"]
    /\ keepalive_due' = [keepalive_due EXCEPT ![a] = now]
    /\ sent' = <<>>
    /\ UNCHANGED <<inflight, clients, next_frame_id, use_h264, now, listener, sender,
                   sweeper, frames_taken, registered, peers, received, acked>>
    /\ UNCHANGED <<sideVars, wireVars, recvVars, shutdownVars>>

\* send_keepalive: self.socket.sendto(b"KEEPALIVE", ...); time.sleep(15)
ClientKeepalive(a) ==
    /\ client_pc[a] = "streaming"
    /\ keepalive_due[a] <= now
    /\ inflight' = Append(inflight, [data |-> KEEPALIVE, addr |-> a])
    /\ keepalive_due' = [keepalive_due EXCEPT ![a] = now + KEEPALIVE_PERIOD]
    /\ sent' = <<>>
    /\ UNCHANGED <<client_pc, clients, next_frame_id, use_h264, now, listener, sender,
                   sweeper, frames_taken, registered, peers, received, acked>>
    /\ UNCHANGED <<sideVars, wireVars, recvVars, shutdownVars>>

Connect == \E a \in Sources(peers) : ClientConnect(a)
Start == \E a \in Sources(peers) : ClientStart(a)
Keepalive == \E a \in Sources(peers) : ClientKeepalive(a)

\* the listener receives the datagram that has been in flight longest
ListenerDeliver ==
    /\ inflight # <<>>
    /\ ListenerTakes(Head(inflight).data, Head(inflight).addr)
    /\ inflight' = Tail(inflight)
    /\ UNCHANGED <<client_pc, keepalive_due, received>>

\* five seconds pass, once every connect() has returned, every keepalive that
\* is due has been sent, every datagram has been delivered and its handler has
\* finished
Advance ==
    /\ now + SWEEP_PERIOD <= MaxPasses * SWEEP_PERIOD
    /\ inflight = <<>>
    /\ listener.pc = "recv"
    /\ \A a \in Sources(peers) :
          /\ client_pc[a] # "connecting"
          /\ client_pc[a] = "streaming" => keepalive_due[a] > now
    /\ now' = now + SWEEP_PERIOD
    /\ sent' = <<>>
    /\ UNCHANGED <<clients, next_frame_id, use_h264, listener, sender, sweeper,
                   frames_taken, registered, peers, received, acked>>
    /\ UNCHANGED <<clientVars, sideVars, wireVars, recvVars, shutdownVars>>

\* no clients on schedule: the state of their variables in the specifications
\* that do not run them
ClientsParked ==
    /\ client_pc = <<>>
    /\ keepalive_due = <<>>
    /\ inflight = <<>>

\* the server parked: the state of its variables in the specifications that
\* do not run it
ServerParked ==
    /\ clients = <<>>
    /\ next_frame_id = Zero32
    /\ use_h264 = FALSE
    /\ now = 0
    /\ listener = ListenerIdle
    /\ sender = SenderIdle
    /\ sweeper = SweeperIdle
    /\ sent = <<>>
    /\ frames_taken = 0
    /\ registered = {}
    /\ peers = "none"
    /\ received = [data |-> <<>>, addr |-> None]
    /\ acked = {}
    /\ streamer_running = FALSE
    /\ socket_closed = FALSE
    /\ ClientsParked

-----------------------------------------------------------------------------
(* config.py: parse_stream_config *)

NumericOptions == {"width", "height", "fps", "bitrate", "gop"}
Options == NumericOptions \cup {"profile"}

\* Python and JSON values: an int, a float (kept in tenths), a str, None/null,
\* and the mark of a key the JSON object does not have
PyInt(n) == [kind |-> "int", n |-> n, s |-> ""]
PyFloat(tenths) == [kind |-> "float", n |-> tenths, s |-> ""]
PyStr(s) == [kind |-> "str", n |-> 0, s |-> s]
PyNone == [kind |-> "none", n |-> 0, s |-> ""]
NoKey == [kind |-> "nokey", n |-> 0, s |-> ""]

\* os.path.exists(args.config) is false
NoFile == [k \in Options |-> [kind |-> "nofile", n |-> 0, s |-> ""]]

\* the defaults
Defaults ==
    [k \in Options |->
        CASE k = "width" -> PyInt(640)
          [] k = "height" -> PyInt(480)
          [] k = "fps" -> PyInt(30)
          [] k = "bitrate" -> PyInt(2000000)
          [] k = "gop" -> PyInt(30)
          [] k = "profile" -> PyStr("baseline")]

\* the decimal text of a natural number
DigitText == <<"0", "1", "2", "3", "4", "5", "6", "7", "8", "9">>
RECURSIVE Decimal(_)
Decimal(n) == IF n < 10 THEN DigitText[n + 1]
              ELSE Decimal(n \div 10) \o DigitText[(n % 10) + 1]

\* int(v) for a JSON number or null: a float is cut towards zero, None raises
\* TypeError
int(v) ==
    CASE v.kind = "int" -> [raised |-> "", val |-> v]
      [] v.kind = "float" ->
            [raised |-> "",
             val |-> PyInt(IF v.n >= 0 THEN v.n \div 10 ELSE 0 - ((0 - v.n) \div 10))]
      [] OTHER -> [raised |-> "TypeError", val |-> PyNone]

\* str(v) for a JSON string, a non-negative int or null
str(v) ==
    CASE v.kind = "str" -> [raised |-> "", val |-> v]
      [] v.kind = "int" -> [raised |-> "", val |-> PyStr(Decimal(v.n))]
      [] OTHER -> [raised |-> "", val |-> PyStr("None")]

\* int(config_data.get(k, current)) and str(config_data.get("profile", profile))
FromFile(k, file, current) ==
    LET got == IF file[k] = NoKey THEN current ELSE file[k]
    IN  IF k = "profile" THEN str(got) ELSE int(got)

\* variant: the command line is not looked at
Override_never(cli, current) == current

\* if args.width is not None: width = args.width
Override(cli, current) == IF cli # PyNone THEN cli ELSE current

\* width <= 0 or height <= 0 or fps <= 0 or bitrate <= 0 or gop <= 0, and
\* profile not in allowed_profiles
Invalid(c) ==
    \/ \E k \in NumericOptions : c[k].n <= 0
    \/ c["profile"].s \notin {"baseline", "main", "high"}

\* parse_stream_config after parser.parse_args: the defaults, the file, the
\* command line, the validation
parse_stream_config(a, file) ==
    LET fromFile == [k \in Options |->
                        IF file = NoFile
                        THEN [raised |-> "", val |-> Defaults[k]]
                        ELSE FromFile(k, file, Defaults[k])]
        final == [k \in Options |-> Override(a[k], fromFile[k].val)]
    IN  IF \E k \in Options : fromFile[k].raised # ""
        THEN [raised |-> "TypeError", config |-> NoFile]
        ELSE IF Invalid(final)
             THEN [raised |-> "ValueError", config |-> NoFile]
             ELSE [raised |-> "", config |-> final]

\* parse_stream_config has not been called
NotCalled == [raised |-> "not called", config |-> NoFile]

\* the command lines of the model: every choice of options given, with good
\* values, and each option alone with a value that is not valid
GoodArgs ==
    [k \in Options |->
        CASE k = "width" -> PyInt(1920)
          [] k = "height" -> PyInt(1080)
          [] k = "fps" -> PyInt(60)
          [] k = "bitrate" -> PyInt(5000000)
          [] k = "gop" -> PyInt(120)
          [] k = "profile" -> PyStr("high")]
BadArgs ==
    [k \in Options |-> IF k = "profile" THEN PyStr("unsupported")
                       ELSE IF k \in {"width", "fps"} THEN PyInt(0) ELSE PyInt(-1)]
CommandLines ==
    { [k \in Options |-> IF k \in given THEN GoodArgs[k] ELSE PyNone] :
         given \in SUBSET Options }
    \cup { [k \in Options |-> IF k = bad THEN BadArgs[k] ELSE PyNone] : bad \in Options }

\* a JSON object with the given keys
Object(keys, value) == [k \in Options |-> IF k \in keys THEN value[k] ELSE NoKey]

\* the config files of the model: none, an empty object, a full one, partial
\* ones, and ones with a float, a null, a zero and a number for the profile
FullFile ==
    [k \in Options |->
        CASE k = "width" -> PyInt(1280)
          [] k = "height" -> PyInt(720)
          [] k = "fps" -> PyInt(25)
          [] k = "bitrate" -> PyInt(3000000)
          [] k = "gop" -> PyInt(60)
          [] k = "profile" -> PyStr("main")]
ConfigFiles ==
    { NoFile,
      Object({}, FullFile),
      FullFile,
      Object({"width", "profile"}, FullFile),
      Object({"height", "fps", "gop"}, FullFile),
      [FullFile EXCEPT !["width"] = PyFloat(12809)],
      [Object({"fps"}, FullFile) EXCEPT !["fps"] = PyFloat(5)],
      [FullFile EXCEPT !["height"] = PyNone],
      [FullFile EXCEPT !["gop"] = PyInt(0)],
      [FullFile EXCEPT !["profile"] = PyInt(5)] }

\* config = parse_stream_config(argv)
ParseStreamConfig ==
    /\ stream_config = NotCalled
    /\ stream_config' = parse_stream_config(args, config_data)
    /\ UNCHANGED <<args, config_data>>
    /\ UNCHANGED <<wireVars, recvVars, serverVars, shutdownVars, clientVars, queueVars>>

\* the configuration parked: the state of its variables in the specifications
\* that do not run it
ConfigParked ==
    /\ args = [k \in Options |-> PyNone]
    /\ config_data = NoFile
    /\ stream_config = NotCalled

-----------------------------------------------------------------------------
(* streamer.py: H264BufferOutput *)

\* the encoder thread outside write
EncoderIdle == [pc |-> "idle", data |-> <<>>, rv |-> 0]

\* the sender thread outside get_chunk and clear; result is what get_chunk
\* returned last
GetterIdle(result) == [pc |-> "idle", result |-> result]

\* get_chunk's results: None, or a chunk
NoChunk == [is_none |-> TRUE, chunk |-> <<>>]
Chunk(c) == [is_none |-> FALSE, chunk |-> c]

\* what the encoder hands to write
EncoderOutput == {<<>>, <<65>>, <<66, 67>>}

\* variant: the chunk written last is taken
popleft_right(q) == [item |-> q[Len(q)], rest |-> SubSeq(q, 1, Len(q) - 1)]

\* self._chunks.popleft()
popleft(q) == [item |-> Head(q), rest |-> Tail(q)]

\* write(data): "if not data: return 0", else on to "with self._lock"
WriteCall ==
    /\ encoder.pc = "idle"
    /\ writes < MaxWrites
    /\ writes' = writes + 1
    /\ \E d \in EncoderOutput :
          encoder' = IF d = <<>>
                     THEN EncoderIdle
                     ELSE [pc |-> "acquire", data |-> d, rv |-> 0]
    /\ UNCHANGED <<chunks, lock, getter, written, returned>>
    /\ UNCHANGED <<wireVars, recvVars, serverVars, shutdownVars, clientVars, configVars>>

\* write: the lock is taken
WriteAcquire ==
    /\ encoder.pc = "acquire"
    /\ lock = "free"
    /\ lock' = "encoder"
    /\ encoder' = [encoder EXCEPT !.pc = "locked"]
    /\ UNCHANGED <<chunks, getter, written, returned, writes>>
    /\ UNCHANGED <<wireVars, recvVars, serverVars, shutdownVars, clientVars, configVars>>

\* write: self._chunks.append(bytes(data)), the lock is released,
\* return len(data)
WriteAppend ==
    /\ encoder.pc = "locked"
    /\ chunks' = Append(chunks, encoder.data)
    /\ written' = Append(written, encoder.data)
    /\ lock' = "free"
    /\ encoder' = [pc |-> "idle", data |-> <<>>, rv |-> Len(encoder.data)]
    /\ UNCHANGED <<getter, returned, writes>>
    /\ UNCHANGED <<wireVars, recvVars, serverVars, shutdownVars, clientVars, configVars>>

\* the sender thread calls get_chunk() (stream_h264_to_clients) or clear()
\* (stop_h264_output)
GetterCall ==
    /\ getter.pc = "idle"
    /\ \E op \in {"get_acquire", "clear_acquire"} : getter' = [getter EXCEPT !.pc = op]
    /\ UNCHANGED <<chunks, lock, encoder, written, returned, writes>>
    /\ UNCHANGED <<wireVars, recvVars, serverVars, shutdownVars, clientVars, configVars>>

\* get_chunk or clear: the lock is taken
GetterAcquire ==
    /\ getter.pc \in {"get_acquire", "clear_acquire"}
    /\ lock = "free"
    /\ lock' = "sender"
    /\ getter' = [getter EXCEPT !.pc = IF @ = "get_acquire" THEN "get_locked"
                                       ELSE "clear_locked"]
    /\ UNCHANGED <<chunks, encoder, written, returned, writes>>
    /\ UNCHANGED <<wireVars, recvVars, serverVars, shutdownVars, clientVars, configVars>>

\* get_chunk: "if not self._chunks: return None", else
\* "return self._chunks.popleft()"; the lock is released
GetChunk ==
    /\ getter.pc = "get_locked"
    /\ IF chunks = <<>>
       THEN /\ getter' = GetterIdle(NoChunk)
            /\ UNCHANGED <<chunks, returned>>
       ELSE /\ getter' = GetterIdle(Chunk(popleft(chunks).item))
            /\ chunks' = popleft(chunks).rest
            /\ returned' = Append(returned, popleft(chunks).item)
    /\ lock' = "free"
    /\ UNCHANGED <<encoder, written, writes>>
    /\ UNCHANGED <<wireVars, recvVars, serverVars, shutdownVars, clientVars, configVars>>

\* clear: self._chunks.clear(); the lock is released
Clear ==
    /\ getter.pc = "clear_locked"
    /\ chunks' = <<>>
    /\ written' = <<>>
    /\ returned' = <<>>
    /\ lock' = "free"
    /\ getter' = [getter EXCEPT !.pc = "idle"]
    /\ UNCHANGED <<encoder, writes>>
    /\ UNCHANGED <<wireVars, recvVars, serverVars, shutdownVars, clientVars, configVars>>

\* H264BufferOutput.__init__
QueueInit ==
    /\ chunks = <<>>
    /\ lock = "free"
    /\ encoder = EncoderIdle
    /\ getter = GetterIdle(NoChunk)
    /\ written = <<>>
    /\ returned = <<>>
    /\ writes = 0

\* the queue parked: the state of its variables in the specifications that do
\* not run it
QueueParked == QueueInit

-----------------------------------------------------------------------------
(* The receiver under arbitrary traffic *)

\* UDPVideoClient.__init__ followed by a successful connect()
ReceiverInit ==
    /\ running = TRUE
    /\ pending_frames = EmptyMap
    /\ expected_chunks = EmptyMap
    /\ data = <<>>
    /\ emitted = <<>>
    /\ completed = <<>>
    /\ chunks_seen = EmptyMap

Init ==
    /\ payload = <<>>
    /\ frame_id_in = 0
    /\ payload_size_in = 0
    /\ packets = <<>>
    /\ pc = "receiving"
    /\ todo = {}
    /\ native \in Platforms
    /\ traffic \in {"eviction", "reassembly"}
    /\ ReceiverInit
    /\ ServerParked
    /\ ConfigParked
    /\ QueueParked

\* recvfrom returns some datagram of the traffic
Receive ==
    \E d \in Datagrams(traffic), esc \in BOOLEAN :
        /\ Deliver(d, esc)
        /\ UNCHANGED <<clientVars, sideVars, wireVars, completed, serverVars, shutdownVars>>

Next == Receive

Spec == Init /\ [][Next]_vars

-----------------------------------------------------------------------------
(* The pipeline: one frame packetized and fed to a fresh receiver *)

InitWire ==
    /\ \E in \in WireInputs :
          /\ payload = Ramp(in[1])
          /\ payload_size_in = in[2]
    /\ frame_id_in \in FrameIds
    /\ packets = <<>>
    /\ pc = "start"
    /\ todo = {}
    /\ native \in Platforms
    /\ traffic = "pipeline"
    /\ ReceiverInit
    /\ ServerParked
    /\ ConfigParked
    /\ QueueParked

\* packets = build_frame_packets(data, frame_id, payload_size)
Packetize ==
    /\ pc = "start"
    /\ packets' = build_frame_packets(payload, frame_id_in, payload_size_in)
    /\ todo' = 1..Len(packets')
    /\ pc' = "packetized"
    /\ UNCHANGED <<clientVars, sideVars, payload, frame_id_in, payload_size_in, recvVars, serverVars,
                   shutdownVars>>

\* the receiver gets packet k: the frame-start packet first, then the chunk
\* packets in any order, each once
Feed(k, esc) ==
    /\ pc = "packetized"
    /\ k \in todo
    /\ k = 1 \/ 1 \notin todo
    /\ Deliver(packets[k], esc)
    /\ completed' = completed \o emitted'
    /\ todo' = todo \ {k}
    /\ UNCHANGED <<clientVars, sideVars, payload, frame_id_in, payload_size_in, packets, pc, serverVars,
                   shutdownVars>>

FeedFrameStart == \E esc \in BOOLEAN : Feed(1, esc)

FeedChunk == \E k \in todo \ {1}, esc \in BOOLEAN : Feed(k, esc)

NextWire == Packetize \/ FeedFrameStart \/ FeedChunk

SpecWire == InitWire /\ [][NextWire]_vars

-----------------------------------------------------------------------------
(* The server: the listener, the sender and the sweep as three threads *)

\* UDPVideoStreamer.__init__ followed by start_streaming: the table is empty
\* and the three threads are at the head of their loops
InitServer ==
    /\ payload = <<>>
    /\ frame_id_in = 0
    /\ payload_size_in = 0
    /\ packets = <<>>
    /\ pc = "serving"
    /\ todo = {}
    /\ native = [longsize |-> 4, order |-> "little"]
    /\ traffic = "none"
    /\ ReceiverInit
    /\ clients = <<>>
    /\ \E setup \in Setups :
          /\ peers = setup.peers
          /\ use_h264 = setup.use_h264
          /\ next_frame_id = setup.next_frame_id
    /\ now = 0
    /\ listener = ListenerIdle
    /\ sender = SenderIdle
    /\ sweeper = SweeperIdle
    /\ sent = <<>>
    /\ frames_taken = 0
    /\ registered = {}
    /\ received = [data |-> <<>>, addr |-> None]
    /\ acked = {}
    /\ streamer_running = TRUE
    /\ socket_closed = FALSE
    /\ ConfigParked
    /\ QueueParked
    /\ ClientsParked

NextServer ==
    \/ ListenerRecv \/ ListenerAck \/ ListenerScan \/ ListenerRefresh \/ ListenerRemove
    \/ SweepBegin \/ SweepScan \/ SweepRemove
    \/ SenderCheck \/ SenderSleep \/ SenderCapture \/ SenderFanout
    \/ SenderRemoveCheck \/ SenderRemove \/ SenderAdvance
    \/ Tick

SpecServer == InitServer /\ [][NextServer]_vars

\* the listener alone, one datagram after the other, with note taken of each
NextDispatch ==
    \/ ListenerRecvNoted \/ ListenerAck \/ ListenerScan \/ ListenerRefresh \/ ListenerRemove
    \/ Tick

SpecDispatch == InitServer /\ [][NextDispatch]_vars

\* the listener and the sweep with clients that connect and then send a
\* KEEPALIVE every 15 s, every datagram delivered and handled before the
\* clock moves on
InitKeepalive ==
    /\ payload = <<>>
    /\ frame_id_in = 0
    /\ payload_size_in = 0
    /\ packets = <<>>
    /\ pc = "serving"
    /\ todo = {}
    /\ native = [longsize |-> 4, order |-> "little"]
    /\ traffic = "none"
    /\ ReceiverInit
    /\ clients = <<>>
    /\ peers \in {"same_ip", "two_ips"}
    /\ use_h264 = FALSE
    /\ next_frame_id = Zero32
    /\ now = 0
    /\ listener = ListenerIdle
    /\ sender = SenderIdle
    /\ sweeper = SweeperIdle
    /\ sent = <<>>
    /\ frames_taken = 0
    /\ registered = {}
    /\ received = [data |-> <<>>, addr |-> None]
    /\ acked = {}
    /\ streamer_running = TRUE
    /\ socket_closed = FALSE
    /\ ConfigParked
    /\ QueueParked
    /\ client_pc = [a \in Sources(peers) |-> "idle"]
    /\ keepalive_due = [a \in Sources(peers) |-> 0]
    /\ inflight = <<>>

NextKeepalive ==
    \/ Connect \/ Start \/ Keepalive
    \/ ListenerDeliver \/ ListenerAck \/ ListenerScan \/ ListenerRefresh
    \/ SweepBegin \/ SweepScan \/ SweepRemove
    \/ Advance

SpecKeepalive == InitKeepalive /\ [][NextKeepalive]_vars

\* the encoder thread writing and the sender thread reading one
\* H264BufferOutput
InitQueue ==
    /\ payload = <<>>
    /\ frame_id_in = 0
    /\ payload_size_in = 0
    /\ packets = <<>>
    /\ pc = "queue"
    /\ todo = {}
    /\ native = [longsize |-> 4, order |-> "little"]
    /\ traffic = "none"
    /\ ReceiverInit
    /\ ServerParked
    /\ ConfigParked
    /\ QueueInit

NextQueue ==
    \/ WriteCall \/ WriteAcquire \/ WriteAppend
    \/ GetterCall \/ GetterAcquire \/ GetChunk \/ Clear

SpecQueue == InitQueue /\ [][NextQueue]_vars

\* parse_stream_config called once on some command line and some config file
InitConfig ==
    /\ payload = <<>>
    /\ frame_id_in = 0
    /\ payload_size_in = 0
    /\ packets = <<>>
    /\ pc = "config"
    /\ todo = {}
    /\ native = [longsize |-> 4, order |-> "little"]
    /\ traffic = "none"
    /\ ReceiverInit
    /\ ServerParked
    /\ args \in CommandLines
    /\ config_data \in ConfigFiles
    /\ stream_config = NotCalled
    /\ QueueParked

NextConfig == ParseStreamConfig

SpecConfig == InitConfig /\ [][NextConfig]_vars

\* the server with stop() called at any moment
NextShutdown ==
    \/ NextServer
    \/ StopFlag \/ StopClose
    \/ ListenerExit \/ SenderExit \/ SweeperExit

SpecShutdown == InitServer /\ [][NextShutdown]_vars

-----------------------------------------------------------------------------
(* Claims about the packetizer and the pipeline (SpecWire) *)

\* ceil(a / b) for b > 0
CeilDiv(a, b) == IF a % b = 0 THEN a \div b ELSE (a \div b) + 1

\* S': the chunk size the claims call effective
ClaimedChunkSize == IF payload_size_in > 0 THEN payload_size_in ELSE 1200

\* the little-endian u32 at byte offset off (0-based) of packet p
WireU32(p, off) == DecodeU32(SubSeq(p, off + 1, off + 4), "little")

RECURSIVE ConcatPayloads(_, _)
ConcatPayloads(pkts, k) ==
    IF k > Len(pkts)
    THEN <<>>
    ELSE SubSeq(pkts[k], 14, Len(pkts[k])) \o ConcatPayloads(pkts, k + 1)

\* C1: round trip.  Once the frame-start packet and then every chunk packet of
\* build_frame_packets(P, id, S), S > 0, have been fed to the reassembler, in
\* any order of the chunks, the consumer has received exactly one frame, for
\* id, and its bytes are P.
C1_RoundTrip ==
    (pc = "packetized" /\ todo = {} /\ payload_size_in > 0)
        => completed = <<[frame_id |-> frame_id_in, frame_data |-> payload]>>

\* C2: packet count law.  build_frame_packets returns 1 + ceil(len(P)/S')
\* packets, S' = S if S > 0 and 1200 otherwise; the first is the frame-start
\* packet, carrying frame_id, total_size = len(P) and
\* chunk_count = ceil(len(P)/S'); the others are chunk packets.
C2_PacketCountLaw ==
    pc = "packetized" =>
        LET n == CeilDiv(Len(payload), ClaimedChunkSize)
        IN  /\ Len(packets) = 1 + n
            /\ Len(packets[1]) = 23
            /\ SubSeq(packets[1], 1, 11) = FRAME_START
            /\ WireU32(packets[1], 11) = frame_id_in
            /\ WireU32(packets[1], 15) = Len(payload)
            /\ WireU32(packets[1], 19) = n
            /\ \A k \in 2..Len(packets) : SubSeq(packets[k], 1, 5) = CHUNK
            /\ Len(payload) = 0 => packets = <<FrameStartPacket(frame_id_in, 0, 0)>>

\* C2 witness: a 1201-byte payload packetized with a non-positive chunk size
\* came out as a frame-start packet and two chunk packets.
C2_Witness ==
    /\ pc = "packetized"
    /\ payload_size_in <= 0
    /\ Len(payload) = 1201
    /\ Len(packets) = 3

\* C3: chunk slicing and order.  The k-th chunk packet (k = 0, 1, ...) follows
\* the frame-start packet at position k, carries frame_id = id, chunk_index = k
\* and payload P[k*S' : min((k+1)*S', len(P))], which is non-empty and at most
\* S' bytes; the payloads concatenated give P.
C3_ChunkSlicing ==
    pc = "packetized" =>
        /\ \A k \in 0..(Len(packets) - 2) :
              LET p == packets[k + 2]
                  lo == k * ClaimedChunkSize
                  hi == IF (k + 1) * ClaimedChunkSize < Len(payload)
                        THEN (k + 1) * ClaimedChunkSize
                        ELSE Len(payload)
              IN  /\ SubSeq(p, 1, 5) = CHUNK
                  /\ WireU32(p, 5) = frame_id_in
                  /\ WireU32(p, 9) = k
                  /\ SubSeq(p, 14, Len(p)) = SubSeq(payload, lo + 1, hi)
                  /\ Len(p) - 13 >= 1
                  /\ Len(p) - 13 <= ClaimedChunkSize
        /\ ConcatPayloads(packets, 2) = payload

\* C3 witness: 2500 bytes in chunks of 1000 came out as chunks of 1000, 1000
\* and 500 bytes.
C3_Witness ==
    /\ pc = "packetized"
    /\ Len(payload) = 2500
    /\ payload_size_in = 1000
    /\ Len(packets) = 4
    /\ Len(packets[4]) = 513

-----------------------------------------------------------------------------
(* Claims about the reassembler under arbitrary traffic (Spec) *)

\* d is long enough to be handled as a frame-start, and as a chunk
IsFrameStart(d) == StartsWith(d, FRAME_START) /\ Len(d) >= 23
IsChunk(d) == StartsWith(d, CHUNK) /\ Len(d) >= 13

\* the fields as the receiver reads them, where it can
StartRead(d) == FrameStartFields(d, native).ok
StartId(d) == FrameStartFields(d, native).vals[1]
StartSize(d) == FrameStartFields(d, native).vals[2]
StartCount(d) == FrameStartFields(d, native).vals[3]
ChunkRead(d) == ChunkFields(d, native).ok
ChunkId(d) == ChunkFields(d, native).vals[1]
ChunkIndex(d) == ChunkFields(d, native).vals[2]

\* the reassembler's tables and output are as they were
ReassemblerUntouched ==
    /\ pending_frames' = pending_frames
    /\ expected_chunks' = expected_chunks
    /\ emitted' = <<>>

\* C4: a frame is emitted only when every chunk index 0..chunk_count-1 of its
\* latest frame-start has been accepted (the chunk being handled included);
\* repeated chunks do not stand in for a missing index.
C4_CompleteOnlyWhenAllChunks ==
    [][ emitted' # <<>> =>
          LET id == emitted'[1].frame_id
          IN  /\ id \in DOMAIN chunks_seen
              /\ \A k \in 0..(chunks_seen[id].count - 1) :
                    k \in chunks_seen[id].indices \cup {ChunkIndex(data')} ]_vars

\* C5: a frame-start packet with total_size = 0 and chunk_count = 0 is a
\* complete empty frame: handling it emits the empty frame for its id and
\* leaves no pending entry for that id.
C5_EmptyFrameCompletes ==
    [][ (IsFrameStart(data') /\ WireU32(data', 15) = 0 /\ WireU32(data', 19) = 0) =>
          /\ emitted' = <<[frame_id |-> WireU32(data', 11), frame_data |-> <<>>]>>
          /\ WireU32(data', 11) \notin DOMAIN pending_frames' ]_vars

\* C6: after every handler the pending-frame table holds at most 5 entries.
C6_PendingBound == Cardinality(DOMAIN pending_frames) <= 5

\* C6 witness: the table is full and the frame-start just handled is not in
\* it, so a sixth entry was inserted and one was removed.
C6_Witness ==
    /\ Cardinality(DOMAIN pending_frames) = 5
    /\ IsFrameStart(data) /\ StartRead(data)
    /\ StartId(data) \notin DOMAIN pending_frames

\* a frame-start for an id that is not pending arrives while 5 are pending
SixthFrameStarts ==
    /\ Cardinality(DOMAIN pending_frames) = 5
    /\ IsFrameStart(data') /\ StartRead(data')
    /\ StartId(data') \notin DOMAIN pending_frames

\* C7 as claimed: the smallest of the five ids that were pending is evicted;
\* the new frame and the other four remain.
C7_EvictsSmallestExisting ==
    [][ SixthFrameStarts =>
          DOMAIN pending_frames' =
            (DOMAIN pending_frames \ {Min(DOMAIN pending_frames)}) \cup {StartId(data')}
      ]_vars

\* C7 amended: exactly one of the six entries, the five that were pending and
\* the new one, is removed: the one with the smallest frame_id of the six (the
\* new frame itself when its id is below all five); the other five remain,
\* the old ones among them unchanged.
C7_EvictsSmallestOfSix ==
    [][ SixthFrameStarts =>
          LET six == DOMAIN pending_frames \cup {StartId(data')}
          IN  /\ DOMAIN pending_frames' = six \ {Min(six)}
              /\ DOMAIN expected_chunks' = six \ {Min(six)}
              /\ Cardinality(DOMAIN pending_frames') = 5
              /\ \A x \in DOMAIN pending_frames' \ {StartId(data')} :
                    /\ pending_frames'[x] = pending_frames[x]
                    /\ expected_chunks'[x] = expected_chunks[x]
      ]_vars

\* C7 witness: frames 1..5 are pending right after a frame-start for id 0 was
\* handled: the new frame was the one removed.
C7_Witness ==
    /\ DOMAIN pending_frames = {1, 2, 3, 4, 5}
    /\ IsFrameStart(data) /\ StartRead(data)
    /\ StartId(data) = 0

\* C8: a chunk for a pending frame whose range chunk_index * 1200 +
\* len(payload) exceeds the frame's total_size is dropped: buffers, remaining
\* counts and the set of pending frames stay as they were, nothing is emitted.
C8_OutOfRangeDropped ==
    [][ (IsChunk(data') /\ ChunkRead(data')
           /\ ChunkId(data') \in DOMAIN pending_frames
           /\ ChunkIndex(data') * 1200 + (Len(data') - 13)
                > Len(pending_frames[ChunkId(data')]))
          => ReassemblerUntouched ]_vars

\* C8 witness: the chunk just handled belongs to a pending frame that already
\* holds chunk data, and its range ends beyond the frame's buffer.
C8_Witness ==
    /\ IsChunk(data) /\ ChunkRead(data)
    /\ ChunkId(data) \in DOMAIN pending_frames
    /\ ChunkIndex(data) * 1200 + (Len(data) - 13) > Len(pending_frames[ChunkId(data)])
    /\ chunks_seen[ChunkId(data)].indices # {}
    /\ emitted = <<>>

\* C9: a chunk whose frame_id has no pending entry changes nothing in the
\* reassembler: no entry is created, none is changed, nothing is emitted.
C9_UnknownFrameDropped ==
    [][ (IsChunk(data') /\ (ChunkRead(data') => ChunkId(data') \notin DOMAIN pending_frames))
          => ReassemblerUntouched ]_vars

\* C9 witness: the chunk just handled names an id that is not pending while
\* another frame is, and nothing was emitted.
C9_Witness ==
    /\ IsChunk(data) /\ ChunkRead(data)
    /\ ChunkId(data) \notin DOMAIN pending_frames
    /\ pending_frames # EmptyMap
    /\ emitted = <<>>

\* C10: a frame-start for an id that is already pending replaces the entry by
\* a zero-filled buffer of the new total_size with chunks_remaining = the new
\* chunk_count; the set of pending ids and every other entry stay as they were.
C10_FrameStartSupersedes ==
    [][ (IsFrameStart(data') /\ StartRead(data')
           /\ StartId(data') \in DOMAIN pending_frames)
          => /\ DOMAIN pending_frames' = DOMAIN pending_frames
             /\ DOMAIN expected_chunks' = DOMAIN expected_chunks
             /\ Len(pending_frames'[StartId(data')]) = StartSize(data')
             /\ \A i \in 1..StartSize(data') : pending_frames'[StartId(data')][i] = 0
             /\ expected_chunks'[StartId(data')] = StartCount(data')
             /\ \A x \in DOMAIN pending_frames \ {StartId(data')} :
                   /\ pending_frames'[x] = pending_frames[x]
                   /\ expected_chunks'[x] = expected_chunks[x]
             /\ emitted' = <<>> ]_vars

\* C10 witness: the frame-start just handled replaced an entry that had
\* accepted chunk data, and the entry now holds a zero buffer and the new count.
C10_Witness ==
    /\ IsFrameStart(data) /\ StartRead(data)
    /\ StartId(data) \in DOMAIN pending_frames
    /\ chunks_seen[StartId(data)].replaced
    /\ StartSize(data) > 0
    /\ expected_chunks[StartId(data)] = StartCount(data)

\* C11: completion is terminal.  When a chunk takes the remaining count of its
\* frame to 0 the entry leaves both tables and the buffer is emitted in that
\* same step; nothing is emitted otherwise; the emitted id was pending (so a
\* chunk for it is dropped until a new frame-start stores it again, and one
\* frame-start leads to at most one emission); and after a chunk handler
\* returns no stored entry has a remaining count of 0.
C11_CompletionTerminal ==
    [][ StartsWith(data', CHUNK) =>
          /\ emitted' # <<>> =>
                /\ Len(emitted') = 1
                /\ emitted'[1].frame_id = ChunkId(data')
                /\ ChunkId(data') \in DOMAIN pending_frames
                /\ expected_chunks[ChunkId(data')] = 1
                /\ ChunkId(data') \notin DOMAIN pending_frames'
                /\ ChunkId(data') \notin DOMAIN expected_chunks'
          /\ (/\ IsChunk(data') /\ ChunkRead(data')
              /\ ChunkId(data') \in DOMAIN expected_chunks
              /\ ChunkId(data') \in DOMAIN expected_chunks')
                => emitted' = <<>>
          /\ \A x \in DOMAIN expected_chunks' : expected_chunks'[x] # 0 ]_vars

-----------------------------------------------------------------------------
(* Claims about the server (SpecServer) *)

\* the keys of a table, as a set
KeySet(c) == {c[i].addr : i \in 1..Len(c)}

\* the entries of a table whose key is not in S, as a set
EntriesOutside(c, S) == {c[i] : i \in {j \in 1..Len(c) : c[j].addr \notin S}}

\* the listener handles a REGISTER_CLIENT datagram in this step
RegisterStep == listener.pc = "recv" /\ listener'.pc = "ack"

\* C12: register.  Handling REGISTER_CLIENT from (ip, port) leaves exactly one
\* entry for (ip, port) in the session table, with last_seen = now; every
\* other session is as it was; an endpoint that was present keeps the table at
\* its size.  The next step of the handler sends REGISTERED to that (ip, port).
C12_Register ==
    [][ /\ RegisterStep =>
              /\ Cardinality({i \in 1..Len(clients') :
                                 clients'[i].addr = listener'.addr}) = 1
              /\ Lookup(clients', listener'.addr) = now
              /\ KeySet(clients') = KeySet(clients) \cup {listener'.addr}
              /\ EntriesOutside(clients', {listener'.addr})
                   = EntriesOutside(clients, {listener'.addr})
              /\ Len(clients') = Cardinality(KeySet(clients'))
              /\ listener'.addr \in KeySet(clients) => Len(clients') = Len(clients)
        /\ listener.pc = "ack" =>
              \/ listener' = listener
              \/ /\ sent' = <<[to |-> listener.addr, data |-> REGISTERED]>>
                 /\ clients' = clients
      ]_vars

\* C12 witness: the endpoint just registered is the older of two sessions and
\* carries the newer time stamp, so it was present before, was refreshed in
\* place, and the other session kept its earlier time stamp.
C12_Witness ==
    /\ listener.pc = "ack"
    /\ Len(clients) = 2
    /\ clients[1].addr = listener.addr
    /\ clients[1].last_seen = now
    /\ clients[2].last_seen < now

\* C13: keepalive.  Handling KEEPALIVE from source IP a refreshes last_seen of
\* the first session whose endpoint has IP a and changes nothing else; with no
\* such session the table stays as it is; no step of the handler changes the
\* set of registered endpoints, so a keepalive never creates a session.
C13_Keepalive ==
    [][ /\ (listener.pc = "recv" /\ listener'.pc \in {"ka_scan", "ka_store"}) =>
              /\ clients' = clients
              /\ listener'.pc = "ka_store" =>
                    \E addr \in Sources(peers) :
                       listener'.client_addr = FirstMatch(Keys(clients), addr[1])
        /\ (listener.pc = "ka_scan" /\ listener' # listener) =>
              /\ clients' = clients
              /\ listener'.pc = "ka_store" =>
                    listener'.client_addr = FirstMatch(Keys(clients), listener.addr[1])
              /\ listener'.pc = "recv" =>
                    FirstMatch(Keys(clients), listener.addr[1]) = None
        /\ (listener.pc = "ka_store" /\ listener' # listener) =>
              /\ KeySet(clients') = KeySet(clients)
              /\ Len(clients') = Len(clients)
              /\ Lookup(clients', listener.client_addr) = now
              /\ EntriesOutside(clients', {listener.client_addr})
                   = EntriesOutside(clients, {listener.client_addr})
      ]_vars

\* C14: disconnect.  Handling DISCONNECT from source IP a removes one session
\* whose endpoint has IP a, whatever its last_seen, and leaves every other
\* session as it was; with no session of IP a the table stays as it is; and
\* the handler raises no error in either case.
C14_Disconnect ==
    [][ /\ (listener.pc = "recv" /\ listener'.pc = "dc_del") =>
              /\ clients' = clients
              /\ listener'.client_addr \in KeySet(clients)
              /\ \E addr \in Sources(peers) : listener'.client_addr[1] = addr[1]
        /\ (listener.pc = "dc_del" /\ listener' # listener) =>
              /\ listener'.pc # "done"
              /\ KeySet(clients') = KeySet(clients) \ {listener.client_addr}
              /\ EntriesOutside(clients', {listener.client_addr})
                   = EntriesOutside(clients, {listener.client_addr})
      ]_vars

\* C15: sweep.  One sweep pass that read the clock at current_time removes
\* exactly the sessions with current_time - last_seen > 30: a session it
\* removes is that old when it is removed, a session that is not that old
\* stays with its last_seen as it was, the pass runs to its end, and at its
\* end no session that old is left.
C15_Sweep ==
    [][ /\ (sweeper.pc \in {"scan", "del"} /\ sweeper' # sweeper) =>
              /\ sweeper'.pc # "done"
              /\ sweeper'.pc = "sleep" =>
                    \A i \in 1..Len(clients') :
                       sweeper.current_time - clients'[i].last_seen <= 30
        /\ (sweeper.pc = "scan" /\ sweeper' # sweeper) => clients' = clients
        /\ (sweeper.pc = "del" /\ sweeper' # sweeper) =>
              /\ Head(sweeper.inactive) \in KeySet(clients)
              /\ sweeper.current_time - Lookup(clients, Head(sweeper.inactive)) > 30
              /\ KeySet(clients') = KeySet(clients) \ {Head(sweeper.inactive)}
              /\ EntriesOutside(clients', {Head(sweeper.inactive)})
                   = EntriesOutside(clients, {Head(sweeper.inactive)})
      ]_vars

\* the threads that have begun a registry operation and not finished it: the
\* listener between the lookup of a keepalive or disconnect and its store or
\* delete, the sweep between the start of its scan and its last delete, the
\* sender between the membership test and the delete of a failed session
InRegistryOperation ==
    (IF listener.pc \in {"ka_scan", "ka_store", "dc_del"} THEN {"listener"} ELSE {})
    \cup (IF sweeper.pc \in {"scan", "del"} THEN {"sweeper"} ELSE {})
    \cup (IF sender.pc = "remove_del" THEN {"sender"} ELSE {})

\* C16: access to the session table is serialized.  At any moment at most one
\* thread is inside a registry operation, so none works on a table another is
\* changing; and no thread's loop is ended by the errors of unserialized
\* access (RuntimeError from iterating a dict that changed size, KeyError from
\* deleting a key that has gone).
C16_Serialized ==
    /\ Cardinality(InRegistryOperation) <= 1
    /\ listener.pc # "done"
    /\ sweeper.pc # "done"
    /\ sender.pc # "done"

\* the packets of the frame the sender is fanning out
FramePackets ==
    build_frame_packets(sender.data, PackArg(next_frame_id), CHUNK_PAYLOAD_SIZE)

\* the sendto calls of the step that went to address a
SentTo(a) == SelectSeq(sent', LAMBDA m : m.to = a)

\* C17: send-failure isolation.  In a fan-out pass every session of the
\* snapshot either receives all packets of the frame or is marked as failed,
\* whatever happens to the others, and the pass leaves the table alone; after
\* the pass each failed session is removed and no other session is touched;
\* and the sender's loop is not ended by any of this.
C17_SendFailureIsolation ==
    [][ /\ (sender.pc = "fanout" /\ sender' # sender) =>
              /\ clients' = clients
              /\ \A a \in KeySet(clients) :
                    \/ SentTo(a) = SendsTo(a, FramePackets, Len(FramePackets))
                    \/ \E i \in 1..Len(sender'.disconnected) : sender'.disconnected[i] = a
              /\ sender'.pc \in {"remove_check", "advance"}
        /\ (sender.pc \in {"remove_check", "remove_del"} /\ sender' # sender) =>
              /\ sender'.pc # "done"
              /\ sender'.disconnected # sender.disconnected =>
                    Head(sender.disconnected) \notin KeySet(clients')
              /\ EntriesOutside(clients', {Head(sender.disconnected)})
                   = EntriesOutside(clients, {Head(sender.disconnected)})
      ]_vars

\* a datagram of the frame transport: a frame-start or a chunk packet
IsFramePacket(d) == StartsWith(d, FRAME_START) \/ StartsWith(d, CHUNK)

\* C18: frame packets go out only in a fan-out pass, only to addresses that
\* are keys of the table when the pass takes its snapshot, and every key of
\* the table is an (ip, port) a REGISTER_CLIENT came from: a keepalive or a
\* disconnect from another port of a registered IP adds no key and so never
\* changes the port frames are sent to.
C18_RegisteredTargetsOnly ==
    [][ /\ \A i \in 1..Len(sent') :
              IsFramePacket(sent'[i].data) =>
                 /\ sender.pc = "fanout"
                 /\ sent'[i].to \in KeySet(clients)
                 /\ sent'[i].to \in registered
        /\ KeySet(clients') \subseteq registered'
      ]_vars

\* C18 witness: only port 5000 of the host has registered; a keepalive from
\* its port 5001 has found that session; and the frame that has just gone out
\* went to port 5000.
C18_Witness ==
    /\ registered = {<<"10.0.0.1", 5000>>}
    /\ listener.pc = "ka_store"
    /\ listener.addr = <<"10.0.0.1", 5001>>
    /\ listener.client_addr = <<"10.0.0.1", 5000>>
    /\ Len(sent) = 2
    /\ \A i \in 1..Len(sent) :
          IsFramePacket(sent[i].data) /\ sent[i].to = <<"10.0.0.1", 5000>>

\* the four bytes of a frame id on the wire, least significant first
IdBytes(x) == <<x.lo % 256, x.lo \div 256, x.hi % 256, x.hi \div 256>>

\* the frame id field of a frame packet: bytes 11..14 of a frame-start
\* packet, bytes 5..8 of a chunk packet
IdField(d) == IF StartsWith(d, FRAME_START) THEN SubSeq(d, 12, 15) ELSE SubSeq(d, 6, 9)

\* C19: frame ids on the sender.  next_frame_id always lies in 0..2^32 - 1;
\* until the first payload is taken it has the value the run began with (0
\* after construction); the step that completes a fan-out cycle advances it
\* by exactly 1 modulo 2^32, 2^32 - 1 being followed by 0, so that two
\* consecutive cycles never use the same id; no other step changes it; and all
\* packets of one cycle, for every session, carry the id of that cycle.
C19_FrameIds ==
    [][ /\ next_frame_id'.hi \in 0..65535 /\ next_frame_id'.lo \in 0..65535
        /\ frames_taken' = 0 => \E setup \in Setups : next_frame_id' = setup.next_frame_id
        /\ IF sender.pc = "advance" /\ sender' # sender
           THEN /\ next_frame_id' # next_frame_id
                /\ IF next_frame_id.hi = 65535 /\ next_frame_id.lo = 65535
                   THEN next_frame_id' = Zero32
                   ELSE (next_frame_id'.hi - next_frame_id.hi) * 65536
                          + (next_frame_id'.lo - next_frame_id.lo) = 1
           ELSE next_frame_id' = next_frame_id
        /\ \A i \in 1..Len(sent') :
              IsFramePacket(sent'[i].data) =>
                 IdField(sent'[i].data) = IdBytes(next_frame_id)
      ]_vars

\* C19 witness: a run that began at 2^32 - 2 has completed two cycles and
\* stands at 0 again.
C19_Witness ==
    /\ next_frame_id = Zero32
    /\ frames_taken = 2
    /\ sender.pc = "check"

\* the idle part of C20: a sender cycle whose check finds no session
\* registered goes to sleep and comes back to the check, and neither step
\* takes a payload, sends a packet or changes next_frame_id
IdleCycleSkipped ==
    /\ (sender.pc = "check" /\ sender' # sender /\ clients = <<>>) =>
          /\ sender'.pc = "sleep"
          /\ frames_taken' = frames_taken
          /\ next_frame_id' = next_frame_id
          /\ sent' = <<>>
    /\ (sender.pc = "sleep" /\ sender' # sender) =>
          /\ sender'.pc = "check"
          /\ frames_taken' = frames_taken
          /\ next_frame_id' = next_frame_id
          /\ sent' = <<>>

\* C20: idle cycles are skipped entirely.  A sender cycle whose check finds no
\* session registered takes no payload, sends no packet and leaves
\* next_frame_id alone; consequently every frame id that is consumed, at the
\* step that advances next_frame_id, belongs to a cycle whose fan-out had at
\* least one session to send to.
C20_IdleCyclesSkipped ==
    [][ /\ IdleCycleSkipped
        /\ (sender.pc = "advance" /\ next_frame_id' # next_frame_id) =>
              sender.targets >= 1
      ]_vars

\* C20 as amended: idle cycles are skipped as above, and a payload is taken
\* and a frame id consumed only in a cycle whose check found a session
\* registered: the sender leaves the check for the payload source only with a
\* non-empty table, takes a payload only there, enters the fan-out only with
\* a payload just taken, sends frame packets only in the fan-out, reaches the
\* end of the cycle only through the fan-out, and changes next_frame_id only
\* at the end of the cycle.  (The table may be empty again by the fan-out.)
C20_IdleCyclesSkippedAmended ==
    [][ /\ IdleCycleSkipped
        /\ (sender'.pc = "capture" /\ sender.pc # "capture") =>
              sender.pc = "check" /\ clients # <<>>
        /\ frames_taken' # frames_taken =>
              sender.pc = "capture" /\ sender'.pc = "fanout"
        /\ (sender'.pc = "fanout" /\ sender.pc # "fanout") =>
              sender.pc = "capture" /\ frames_taken' = frames_taken + 1
        /\ (\E i \in 1..Len(sent') : IsFramePacket(sent'[i].data)) =>
              sender.pc = "fanout"
        /\ (sender'.pc \in {"advance", "remove_check"}
              /\ sender.pc \notin {"advance", "remove_check", "remove_del"}) =>
              sender.pc = "fanout"
        /\ next_frame_id' # next_frame_id => sender.pc = "advance"
      ]_vars

\* C20 witness: after one completed cycle the only session has gone, and the
\* sender, finding the table empty, sleeps with id 1 still unused.
C20_Witness ==
    /\ ~use_h264
    /\ sender.pc = "sleep"
    /\ clients = <<>>
    /\ registered # {}
    /\ frames_taken = 1
    /\ next_frame_id = [hi |-> 0, lo |-> 1]

-----------------------------------------------------------------------------
(* Claims about shutdown (SpecShutdown) *)

\* the thread with record t has seen self.running false at the head of its
\* loop, the position named head, or has left its loop
ObservedStop(t, head) == t.pc = "done" \/ (t.pc = head /\ ~streamer_running)

\* C21: cooperative shutdown.  Once self.running is false, a thread that
\* comes to the head of its loop (the listener at its receive, the sender at
\* its check, the sweep after its sleep) leaves the loop at its next step, so
\* at most the iteration in progress is finished; a thread that has left does
\* nothing more; and no step that changes the session table or sends a frame
\* packet is taken by a thread that has observed self.running false.
C21_CooperativeShutdown ==
    [][ /\ (ObservedStop(listener, "recv") /\ listener' # listener) =>
              listener.pc = "recv" /\ listener'.pc = "done"
        /\ (ObservedStop(sender, "check") /\ sender' # sender) =>
              sender.pc = "check" /\ sender'.pc = "done"
        /\ (ObservedStop(sweeper, "sleep") /\ sweeper' # sweeper) =>
              sweeper.pc = "sleep" /\ sweeper'.pc = "done"
        /\ (clients' # clients \/ \E i \in 1..Len(sent') : IsFramePacket(sent'[i].data)) =>
              \/ listener' # listener /\ ~ObservedStop(listener, "recv")
              \/ sender' # sender /\ ~ObservedStop(sender, "check")
              \/ sweeper' # sweeper /\ ~ObservedStop(sweeper, "sleep")
      ]_vars

\* C21 witness: stop() has run, the sender has finished the cycle it was in
\* and consumed its frame id, and all three threads have left their loops with
\* a session still in the table.
C21_Witness ==
    /\ ~streamer_running
    /\ socket_closed
    /\ listener.pc = "done" /\ sender.pc = "done" /\ sweeper.pc = "done"
    /\ clients # <<>>
    /\ next_frame_id = [hi |-> 0, lo |-> 1]

-----------------------------------------------------------------------------
(* Further claims about the reassembler (Spec) *)

\* C22: malformed packets never stop reassembly.  A datagram that begins with
\* FRAME_START and is shorter than 23 bytes, or begins with CHUNK and is
\* shorter than 13 bytes, leaves both tables as they were, hands nothing to the
\* consumer, raises nothing, and the loop stays ready for the next datagram.
C22_MalformedDropped ==
    [][ (\/ StartsWith(data', FRAME_START) /\ Len(data') < 23
         \/ StartsWith(data', CHUNK) /\ Len(data') < 13)
          => /\ ReassemblerUntouched
             /\ running' ]_vars

\* C22 witness: a truncated chunk has just been handled while a frame is
\* pending, and the loop is still running.
C22_Witness ==
    /\ StartsWith(data, CHUNK) /\ Len(data) = 12
    /\ pending_frames # EmptyMap
    /\ running

-----------------------------------------------------------------------------
(* Claims about the listener's dispatch (SpecDispatch) *)

\* the step is the listener's receive
ReceiveStep == listener.pc = "recv" /\ now' = now

\* C23 (sender's receive path): dispatch by prefix.  Every datagram beginning
\* with REGISTER_CLIENT is registered and acknowledged; every datagram
\* beginning with KEEPALIVE, or with DISCONNECT, from a host with a session is
\* handed to the refresh, or to the removal, of that session; a datagram with
\* any other prefix changes no state, gets no reply and leaves the listener
\* at its receive.
C23_DispatchByPrefix ==
    [][ ReceiveStep =>
          LET d == received'.data
              match == FirstMatch(Keys(clients), received'.addr[1])
          IN  /\ StartsWith(d, REGISTER_CLIENT) =>
                    listener'.pc = "ack" /\ HasKey(clients', received'.addr)
              /\ (StartsWith(d, KEEPALIVE) /\ match # None) =>
                    listener'.pc \in {"ka_scan", "ka_store"}
              /\ (StartsWith(d, DISCONNECT) /\ match # None) =>
                    listener'.pc = "dc_del" /\ listener'.client_addr = match
              /\ (~StartsWith(d, REGISTER_CLIENT) /\ ~StartsWith(d, KEEPALIVE)
                    /\ ~StartsWith(d, DISCONNECT)) =>
                    /\ clients' = clients
                    /\ listener' = ListenerIdle
                    /\ sent' = <<>>
      ]_vars

-----------------------------------------------------------------------------
(* Further claims about the pipeline (SpecWire) *)

\* the receiver's unpack of the n header fields of packet p that begin after
\* off bytes succeeds and gives the values expected
ParsesTo(p, off, n, expected) ==
    /\ n * native.longsize = 4 * n
    /\ \A k \in 0..(n - 1) :
          TopByte(SubSeq(p, off + 4 * k + 1, off + 4 * k + 4), native.order) <= 127
    /\ NativeUnpack(Slice(p, off, off + 4 * n), n, native).vals = expected

\* C24: header encode/decode agreement.  The receiver's parsing of the
\* frame-start packet built by build_frame_packets gives the frame_id,
\* total_size and chunk_count that were encoded, and its parsing of every chunk
\* packet gives the frame_id and chunk_index that were encoded.
C24_HeaderAgreement ==
    pc = "packetized" =>
        /\ ParsesTo(packets[1], FRAME_START_PREFIX_LEN, 3,
                    <<frame_id_in, Len(payload), Len(packets) - 1>>)
        /\ \A k \in 2..Len(packets) :
              ParsesTo(packets[k], CHUNK_PREFIX_LEN, 2, <<frame_id_in, k - 2>>)

-----------------------------------------------------------------------------
(* Claims about the configuration (SpecConfig) *)

\* the config file exists and has key k
FileHas(k) == config_data # NoFile /\ config_data[k] # NoKey

\* C25: configuration precedence.  For each of width, height, fps, bitrate,
\* gop and profile independently, parse_stream_config returns the
\* command-line value if one was given, otherwise the value in the JSON config
\* file if the file exists and has the key, otherwise the built-in default.
C25_Precedence ==
    stream_config # NotCalled =>
        /\ stream_config.raised = ""
        /\ \A k \in Options :
              stream_config.config[k] =
                 IF args[k] # PyNone THEN args[k]
                 ELSE IF FileHas(k) THEN config_data[k]
                 ELSE Defaults[k]

\* the value the file gives for k once converted, where the file has k
Converted(k) == IF k = "profile" THEN str(config_data[k]) ELSE int(config_data[k])

\* C25 as amended: parse_stream_config raises TypeError when the file has a
\* numeric key with the value null; otherwise the value for each option is the
\* command-line value if one was given, otherwise int(...) (for profile,
\* str(...)) of the value in the file if the file exists and has the key,
\* otherwise the default; the values are returned when the five numbers are
\* positive and the profile is baseline, main or high, and ValueError is raised
\* when they are not.
C25_PrecedenceAmended ==
    stream_config # NotCalled =>
        IF \E k \in NumericOptions : FileHas(k) /\ config_data[k] = PyNone
        THEN stream_config.raised = "TypeError"
        ELSE LET value == [k \in Options |->
                              IF args[k] # PyNone THEN args[k]
                              ELSE IF FileHas(k) THEN Converted(k).val
                              ELSE Defaults[k]]
                 valid == /\ \A k \in NumericOptions : value[k].n > 0
                          /\ value["profile"].s \in {"baseline", "main", "high"}
             IN  IF valid
                 THEN stream_config.raised = "" /\ stream_config.config = value
                 ELSE stream_config.raised = "ValueError"

\* C25 witness: a configuration was returned that takes width from the
\* command line over the file, profile from the file and height from the
\* defaults.
C25_Witness ==
    /\ stream_config.raised = ""
    /\ args["width"] = PyInt(1920) /\ FileHas("width")
    /\ config_data["width"] = PyInt(1280)
    /\ stream_config.config["width"] = PyInt(1920)
    /\ args["profile"] = PyNone /\ stream_config.config["profile"] = PyStr("main")
    /\ args["height"] = PyNone /\ ~FileHas("height")
    /\ stream_config.config["height"] = PyInt(480)

-----------------------------------------------------------------------------
(* Further claims about the server (SpecServer) *)

\* C26: the acknowledgment precedes the frames.  Under every interleaving of
\* the listener and the sender, a FRAME_START or CHUNK packet is sent only to
\* an endpoint that REGISTERED has been sent to before, so that the first
\* datagram a registering client gets from the server is REGISTERED.
C26_AckPrecedesFrames ==
    [][ \A i \in 1..Len(sent') :
           IsFramePacket(sent'[i].data) => sent'[i].to \in acked ]_vars

\* C27: stale sessions are eventually evicted.  While self.running stays true
\* the sweep keeps performing passes, so a session whose last_seen is more than
\* client_timeout old is never left in the table with the sweep thread gone:
\* there is always a pass to come that removes it.
C27_StaleEvicted ==
    (streamer_running /\ \E i \in 1..Len(clients) : IsInactive(now, clients[i].last_seen))
        => sweeper.pc # "done"

-----------------------------------------------------------------------------
(* Claims about clients on schedule (SpecKeepalive) *)

\* C28: keepalive prevents eviction.  The session of a client that has
\* registered and keeps sending KEEPALIVE every 15 s, each of them delivered,
\* is never removed by the timeout sweep, however many clients are registered.
C28_KeepalivePreventsEviction ==
    [][ (sweeper.pc = "del" /\ clients' # clients) =>
           client_pc[Head(sweeper.inactive)] # "streaming" ]_vars

-----------------------------------------------------------------------------
(* Claims about the reassembler's counters (Spec) *)

\* C29: remaining-chunk counter range.  After any sequence of frame-start and
\* chunk packets the two tables have the same set of frame ids, and for every
\* pending frame the remaining count lies in 0..chunk_count of the latest
\* frame-start for its id: it never goes negative.
C29_CounterRange ==
    /\ DOMAIN pending_frames = DOMAIN expected_chunks
    /\ \A id \in DOMAIN pending_frames :
          /\ expected_chunks[id] >= 0
          /\ expected_chunks[id] <= chunks_seen[id].count

-----------------------------------------------------------------------------
(* Claims about the encoder output queue (SpecQueue) *)

\* s is a prefix of t
IsPrefix(s, t) == Len(s) <= Len(t) /\ SubSeq(t, 1, Len(s)) = s

\* C30: the encoder output queue is FIFO and lossless under concurrency.  In
\* every interleaving of write and get_chunk, the chunks get_chunk has returned
\* since the last clear are a prefix of the non-empty chunks written since
\* then, in the same order, and what is in the queue is exactly the rest of
\* them; an empty write enqueues nothing and returns at once; get_chunk on an
\* empty queue returns None and lets the lock go.
C30_QueueFifo ==
    [][ /\ IsPrefix(returned', written')
        /\ written' = returned' \o chunks'
        /\ \A i \in 1..Len(chunks') : chunks'[i] # <<>>
        /\ (writes' # writes /\ encoder'.pc = "idle") =>
              /\ chunks' = chunks /\ written' = written
              /\ encoder'.rv = 0
        /\ (getter.pc = "get_locked" /\ getter' # getter) =>
              /\ getter'.pc = "idle" /\ lock' = "free"
              /\ IF chunks = <<>>
                 THEN getter'.result = NoChunk /\ chunks' = chunks
                 ELSE getter'.result = Chunk(chunks[1]) /\ chunks' = Tail(chunks)
      ]_vars

\* C30 witness: three chunks were written, get_chunk has returned the first
\* two in order, the second of them just now, and the third is in the queue
\* while the encoder is in an empty write's return.
C30_Witness ==
    /\ Len(written) = 3
    /\ Len(returned) = 2
    /\ getter.result = Chunk(written[2])
    /\ written[1] # written[2]
    /\ chunks = <<written[3]>>

====
